---- MODULE Spec2Model ----
(***************************************************************************)
(* Model of run_xnat2bids.py: the configuration-to-job compiler            *)
(* (verify_parameters, extract_params, parse_x2b_params,                   *)
(* compile_xnat2bids_list, assemble_argument_lists), the job orchestrator  *)
(* (launch_x2b_jobs, fetch_job_ids, main) and the diff engine              *)
(* (diff_data_directory).                                                  *)
(*                                                                         *)
(* Text.  A Python str is a sequence of atoms.  The characters the code    *)
(* inspects (space, comma, dash, underscore, double quote, digits) are     *)
(* atoms of their own; a run of other characters that no code path looks   *)
(* into (a parameter name, a path, a session identifier) is one atom.      *)
(* "--overwrite" is << "-", "-", "overwrite" >>.                           *)
(*                                                                         *)
(* Values.  A TOML value is a record [t, s, n, li, ls]: t is the Python    *)
(* type ("str", "int", "bool", "ilist", "slist"), s the text of a str, n   *)
(* the int (or 0/1 for a bool), li / ls the elements of a list.            *)
(*                                                                         *)
(* Dicts keep insertion order, as Python dicts do: a dict is a sequence of *)
(* [k, v] entries with distinct keys.                                      *)
(***************************************************************************)
EXTENDS Integers, Sequences, FiniteSets, TLC

VARIABLES
    \* a call of extract_params: its arguments, its result, its position
    xp_param, xp_value, xp_out, xp_pc,
    \* two calls of compile_xnat2bids_list on one dictionary: the dictionary
    \* as loaded and as it is now, the session, both results, the position
    \* (c_x2b_param_dict is the dictionary the last call handed to
    \* parse_x2b_params)
    c_arg_dict0, c_arg_dict, c_session, c_x2b_param_dict, c_out1, c_out2, c_pc,
    \* a run of main(): the command line (m_mode, m_has_config), the user's
    \* configuration file and password, the locals of main (arg_dict,
    \* bids_root, simg, argument_lists, x2b_output, needs_validation, x2b_jobs,
    \* validator_output), the loop index, and what the run did to the world:
    \* GET requests sent, connections still open, directories made, DEBUG
    \* records logged, sbatch commands run, the summary, the exit code
    m_pc, m_mode, m_has_config, m_user_cfg, m_password, m_arg_dict, m_bids_root,
    m_simg, m_i, m_compiled, m_argument_lists, m_output, m_needs_validation,
    m_x2b_jobs, m_bids_dirs, m_val_output, m_gaps, m_prompts, m_queries, m_conn_open, m_dirs,
    m_log, m_executed, m_next_job, m_summary, m_exit, m_reason,
    \* the last answer typed at the confirmation prompt of update mode
    m_confirm

\* diff_data_directory: where the call is, the local tree under bids_root and
\* the session directories in it, the remote inventory, the loop positions,
\* missing_sessions, the connection and the requests sent
VARIABLES d_pc, d_tree, d_paths, d_remote, d_pi, d_study, d_sessions, d_k,
          d_missing, d_conn_open, d_queries

\* a process that calls assemble_argument_lists and then launch_x2b_jobs more
\* than once: the list objects made when the two functions were defined
\* (the defaults of argument_lists and of output), the configuration of the
\* call under way, the loop index, the calls made, the sessions sbatch was
\* run for in the call under way, and the job identifiers handed out
VARIABLES a_pc, a_argument_lists, a_output, a_arg_dict, a_i, a_calls, a_submitted,
          a_next_job

xp_vars == << xp_param, xp_value, xp_out, xp_pc >>
c_vars == << c_arg_dict0, c_arg_dict, c_session, c_x2b_param_dict, c_out1, c_out2, c_pc >>
m_vars ==
    << m_pc, m_mode, m_has_config, m_user_cfg, m_password, m_arg_dict, m_bids_root,
       m_simg, m_i, m_compiled, m_argument_lists, m_output, m_needs_validation,
       m_x2b_jobs, m_bids_dirs, m_val_output, m_gaps, m_prompts, m_queries, m_conn_open,
       m_dirs, m_log, m_executed, m_next_job, m_summary, m_exit, m_reason, m_confirm >>
d_vars == << d_pc, d_tree, d_paths, d_remote, d_pi, d_study, d_sessions, d_k,
            d_missing, d_conn_open, d_queries >>

a_vars == << a_pc, a_argument_lists, a_output, a_arg_dict, a_i, a_calls, a_submitted,
            a_next_job >>

vars == << xp_vars, c_vars, m_vars, d_vars, a_vars >>

\* ------------------------------------------------------------------ bounds
\* longest str value of includeseq / skipseq that is enumerated in full
MaxStrLen == 4
\* largest sequence number in an enumerated list value
MaxSeqNo == 3
\* most keys of an enumerated xnat2bids-args section
MaxKeys == 2
\* largest enumerated value of verbose
MaxVerbose == 2
\* most answers to the confirmation prompt of update mode in one run
MaxPrompts == 2
\* the days of January 2024 a remote date or a local creation time falls on
MaxDay == 3

\* the identifier the scheduler gives the first job it accepts
FirstJobId == 101

\* ------------------------------------------------------------------- text
SP == " "
DASH == "-"
COMMA == ","
DQ == "\""
Digits == << "0", "1", "2", "3", "4", "5", "6", "7", "8", "9" >>
DigitSet == { Digits[i] : i \in 1..10 }
DigitVal(c) == CHOOSE d \in 0..9 : Digits[d + 1] = c

\* ' '.join(parts[lo..hi]), halving the list to keep the evaluation shallow
RECURSIVE JoinRange(_, _, _)
JoinRange(parts, lo, hi) ==
    IF lo > hi THEN << >>
    ELSE IF lo = hi THEN parts[lo]
    ELSE LET mid == (lo + hi) \div 2
         IN  JoinRange(parts, lo, mid) \o << SP >> \o JoinRange(parts, mid + 1, hi)

\* ' '.join(parts)
JoinSp(parts) == JoinRange(parts, 1, Len(parts))

\* s.replace(c, "")
RECURSIVE Remove(_, _)
Remove(s, c) ==
    IF s = << >> THEN << >>
    ELSE IF Head(s) = c THEN Remove(Tail(s), c)
    ELSE << Head(s) >> \o Remove(Tail(s), c)

\* s.split(c): left to right, the piece collected so far in cur
RECURSIVE SplitFrom(_, _, _)
SplitFrom(s, c, cur) ==
    IF s = << >> THEN << cur >>
    ELSE IF Head(s) = c THEN << cur >> \o SplitFrom(Tail(s), c, << >>)
    ELSE SplitFrom(Tail(s), c, Append(cur, Head(s)))

Split(s, c) == SplitFrom(s, c, << >>)

\* c in s
Contains(s, c) == \E i \in 1..Len(s) : s[i] = c

\* int(s) of a str of decimal digits; anything else raises ValueError
IsInt(s) == s # << >> /\ \A i \in 1..Len(s) : s[i] \in DigitSet

RECURSIVE IntAcc(_, _)
IntAcc(s, acc) ==
    IF s = << >> THEN acc ELSE IntAcc(Tail(s), 10 * acc + DigitVal(Head(s)))

ToInt(s) == IntAcc(s, 0)

\* str(n) for n >= 0
RECURSIVE IntToStr(_)
IntToStr(n) ==
    IF n < 10 THEN << Digits[n + 1] >>
    ELSE IntToStr(n \div 10) \o << Digits[(n % 10) + 1] >>

\* list(range(a, b)): the stop value left out
Range_ExclusiveStop(a, b) == [i \in 1..(b - a) |-> a + i - 1]

\* list(range(a, b + 1))
Range(a, b) == [i \in 1..(b - a + 1) |-> a + i - 1]

\* ----------------------------------------------------------------- values
NoStr == << >>
StrV(s) == [t |-> "str", s |-> s, n |-> 0, li |-> << >>, ls |-> << >>]
IntV(n) == [t |-> "int", s |-> NoStr, n |-> n, li |-> << >>, ls |-> << >>]
BoolV(b) == [t |-> "bool", s |-> NoStr, n |-> IF b THEN 1 ELSE 0, li |-> << >>, ls |-> << >>]
IListV(l) == [t |-> "ilist", s |-> NoStr, n |-> 0, li |-> l, ls |-> << >>]
SListV(l) == [t |-> "slist", s |-> NoStr, n |-> 0, li |-> << >>, ls |-> l]

\* the result of a call: a str, or an exception raised (ok = FALSE)
Ok(s) == [ok |-> TRUE, s |-> s]
Raised == [ok |-> FALSE, s |-> << >>]

\* -------------------------------------------------------- extract_params
Flag(param) == << DASH, DASH, param >>

\* f"--{param} {v}"
FlagVal(param, v) == Flag(param) \o << SP >> \o v

\* f"--{param} \"{v}\""
FlagQuoted(param, v) == Flag(param) \o << SP, DQ >> \o v \o << DQ >>

\* one token of the comma list: a range "a-b" or a single value
TokenRaises(val) ==
    /\ Contains(val, DASH)
    /\ \/ Len(Split(val, DASH)) # 2
       \/ ~IsInt(Split(val, DASH)[1])
       \/ ~IsInt(Split(val, DASH)[2])

ExpandToken(param, val) ==
    IF Contains(val, DASH)
    THEN LET startval == Split(val, DASH)[1]
             stopval == Split(val, DASH)[2]
             expanded_val == Range(ToInt(startval), ToInt(stopval))
         IN  [i \in 1..Len(expanded_val) |-> FlagVal(param, IntToStr(expanded_val[i]))]
    ELSE << FlagVal(param, val) >>

RECURSIVE ExpandTokens(_, _)
ExpandTokens(param, val_list) ==
    IF val_list = << >> THEN << >>
    ELSE ExpandToken(param, Head(val_list)) \o ExpandTokens(param, Tail(val_list))

\* the elements `for v in value` yields, each formatted by f"{v}"
Elements(value) ==
    IF value.t = "ilist" THEN [i \in 1..Len(value.li) |-> IntToStr(value.li[i])]
    ELSE IF value.t = "slist" THEN value.ls
    ELSE [i \in 1..Len(value.s) |-> << value.s[i] >>]

Iterable(value) == value.t \in {"ilist", "slist", "str"}

extract_params(param, value) ==
    IF param \in {"includeseq", "skipseq"} /\ value.t = "str"
    THEN LET val_list == Split(Remove(value.s, SP), COMMA)
         IN  IF \E i \in 1..Len(val_list) : TokenRaises(val_list[i])
             THEN Raised
             ELSE Ok(JoinSp(ExpandTokens(param, val_list)))
    ELSE IF ~Iterable(value) THEN Raised
    ELSE LET el == Elements(value)
         IN  Ok(JoinSp([i \in 1..Len(el) |-> FlagQuoted(param, el[i])]))

\* ------------------------------------------------------------------ dicts
Entry(k, v) == [k |-> k, v |-> v]
Keys(d) == { d[i].k : i \in 1..Len(d) }
Has(d, k) == k \in Keys(d)
IndexOf(d, k) == CHOOSE i \in 1..Len(d) : d[i].k = k
Get(d, k) == d[IndexOf(d, k)].v

\* d[k] = v: a key already there keeps its place, a new key goes last
Put(d, k, v) ==
    IF Has(d, k) THEN [d EXCEPT ![IndexOf(d, k)] = Entry(k, v)]
    ELSE Append(d, Entry(k, v))

\* d.update(e)
RECURSIVE Update(_, _)
Update(d, e) ==
    IF e = << >> THEN d ELSE Update(Put(d, Head(e).k, Head(e).v), Tail(e))

\* del d[k]
Del(d, k) == SelectSeq(d, LAMBDA x : x.k # k)

\* ----------------------------------------------------- the parameter schema
PARAM_VAL == "PARAM_VAL"
MULTI_VAL == "MULTI_VAL"
FLAG_ONLY == "FLAG_ONLY"
MULTI_FLAG == "MULTI_FLAG"

\* param_name: (param_type, needs_binding)
xnat2bids_params ==
    ("bidsmap-file" :> << PARAM_VAL, TRUE >>) @@
    ("bids_root" :> << PARAM_VAL, TRUE >>) @@
    ("cleanup" :> << FLAG_ONLY, FALSE >>) @@
    ("dicomfix-config" :> << PARAM_VAL, TRUE >>) @@
    ("export-only" :> << FLAG_ONLY, FALSE >>) @@
    ("host" :> << PARAM_VAL, FALSE >>) @@
    ("includeseq" :> << MULTI_VAL, FALSE >>) @@
    ("log-id" :> << PARAM_VAL, FALSE >>) @@
    ("overwrite" :> << FLAG_ONLY, FALSE >>) @@
    ("sessions" :> << MULTI_VAL, FALSE >>) @@
    ("skip-export" :> << FLAG_ONLY, FALSE >>) @@
    ("skipseq" :> << MULTI_VAL, FALSE >>) @@
    ("validate_frames" :> << FLAG_ONLY, FALSE >>) @@
    ("version" :> << PARAM_VAL, FALSE >>) @@
    ("verbose" :> << MULTI_FLAG, FALSE >>)

config_params ==
    ("project" :> << PARAM_VAL, FALSE >>) @@
    ("subjects" :> << MULTI_VAL, FALSE >>)

\* k in xnat2bids_params or k in config_params
KnownParam(k) == k \in DOMAIN xnat2bids_params \/ k \in DOMAIN config_params

\* ------------------------------------------------------ verify_parameters
\* the members of a list value, as `for item in value` yields them
Items(value) ==
    IF value.t = "slist" THEN value.ls
    ELSE IF value.t = "ilist" THEN value.li
    ELSE value.s

\* [item for item in set(l) if l.count(item) > 1]
Duplicates(value) ==
    LET l == Items(value)
    IN  { l[i] : i \in { j \in 1..Len(l) : \E h \in 1..Len(l) : h # j /\ l[h] = l[j] } }

\* a validation pass that lets every configuration through
verify_parameters_NoChecks(x2b_params) == "ok"

\* "ok", or the test that ended the process with exit()
verify_parameters(x2b_params) ==
    IF \E k \in Keys(x2b_params) : ~KnownParam(k) THEN "invalid_parameter"
    ELSE IF \E param \in {"subjects", "sessions"} :
                 Has(x2b_params, param) /\ Duplicates(Get(x2b_params, param)) # {}
         THEN "duplicates"
    ELSE IF Has(x2b_params, "subjects") /\ ~Has(x2b_params, "project")
         THEN "subjects_without_project"
    ELSE IF Has(x2b_params, "subjects") /\ Has(x2b_params, "sessions")
         THEN "subjects_and_sessions"
    ELSE "ok"

\* ------------------------------------------------------- parse_x2b_params
\* f"{value}"
ReprItems(items, q) ==
    << "[" >> \o JoinRange([i \in 1..Len(items) |->
                   q \o items[i] \o q \o (IF i < Len(items) THEN << COMMA >> ELSE << >>)],
                 1, Len(items)) \o << "]" >>

Fmt(value) ==
    IF value.t = "str" THEN value.s
    ELSE IF value.t = "int" THEN
        (IF value.n < 0 THEN << DASH >> \o IntToStr(0 - value.n) ELSE IntToStr(value.n))
    ELSE IF value.t = "bool" THEN (IF value.n = 1 THEN << "True" >> ELSE << "False" >>)
    ELSE IF value.t = "slist" THEN ReprItems(value.ls, << "'" >>)
    ELSE ReprItems([i \in 1..Len(value.li) |-> IntToStr(value.li[i])], << >>)

\* bool(value)
Truthy(value) ==
    IF value.t = "str" THEN value.s # << >>
    ELSE IF value.t \in {"int", "bool"} THEN value.n # 0
    ELSE IF value.t = "slist" THEN value.ls # << >>
    ELSE value.li # << >>

\* the flag appended once, whatever the count
Repeat_Once(arg, n) == << arg >>

\* `for i in range(n): append(arg)`
Repeat(arg, n) == [i \in 1..n |-> arg]

positional_args == {"sessions", "bids_root"}

\* the arguments one (param, value) pair appends, or the exception it raises
EmitArgs(param, value) ==
    LET param_type == xnat2bids_params[param][1]
    IN  IF param_type = PARAM_VAL
        THEN [ok |-> TRUE, args |-> << FlagQuoted(param, Fmt(value)) >>]
        ELSE IF param_type = MULTI_VAL
        THEN (IF extract_params(param, value).ok
              THEN [ok |-> TRUE, args |-> << extract_params(param, value).s >>]
              ELSE [ok |-> FALSE, args |-> << >>])
        ELSE IF param_type = FLAG_ONLY
        THEN [ok |-> TRUE, args |-> IF Truthy(value) THEN << Flag(param) >> ELSE << >>]
        ELSE IF value.t \in {"int", "bool"}
        THEN [ok |-> TRUE, args |-> Repeat(Flag(param), value.n)]
        ELSE [ok |-> FALSE, args |-> << >>]

\* a (param, value) pair the loop passes over without an argument
Skipped(param, value) ==
    \/ value = StrV(<< >>)
    \/ param \in positional_args
    \/ param \in DOMAIN config_params

\* the turn without the membership test of lines 394-400: a key outside both
\* tables is written out like a PARAM_VAL parameter
ParseStep_Unchecked(acc, param, value) ==
    IF acc.st # "ok" THEN acc
    ELSE IF ~KnownParam(param)
    THEN [acc EXCEPT !.list = Append(@, FlagQuoted(param, Fmt(value)))]
    ELSE IF Skipped(param, value) THEN acc
    ELSE IF ~EmitArgs(param, value).ok THEN [acc EXCEPT !.st = "raise"]
    ELSE [st |-> "ok",
          list |-> acc.list \o EmitArgs(param, value).args,
          bindings |-> IF xnat2bids_params[param][2]
                       THEN Append(acc.bindings, value) ELSE acc.bindings]

\* one turn of `for param, value in xnat2bids_dict.items()`
ParseStep(acc, param, value) ==
    IF acc.st # "ok" THEN acc
    ELSE IF ~KnownParam(param) THEN [acc EXCEPT !.st = "NameError"]
    ELSE IF Skipped(param, value) THEN acc
    ELSE IF ~EmitArgs(param, value).ok THEN [acc EXCEPT !.st = "raise"]
    ELSE [st |-> "ok",
          list |-> acc.list \o EmitArgs(param, value).args,
          bindings |-> IF xnat2bids_params[param][2]
                       THEN Append(acc.bindings, value) ELSE acc.bindings]

RECURSIVE ParseLoop(_, _)
ParseLoop(acc, d) ==
    IF d = << >> THEN acc
    ELSE ParseLoop(ParseStep(acc, Head(d).k, Head(d).v), Tail(d))

\* [st, list, bindings]: st = "ok" and the list returned with the bindings
\* appended, or the way the call ended without returning
parse_x2b_params(xnat2bids_dict, session, bindings) ==
    LET start == IF Has(xnat2bids_dict, "bids_root")
                 THEN [st |-> "ok",
                       list |-> << session, Fmt(Get(xnat2bids_dict, "bids_root")) >>,
                       bindings |-> Append(bindings,
                                           StrV(Fmt(Get(xnat2bids_dict, "bids_root"))))]
                 ELSE [st |-> "ok", list |-> << session >>, bindings |-> bindings]
        end == ParseLoop(start, xnat2bids_dict)
    IN  IF end.st = "ok" THEN end
        ELSE [st |-> end.st, list |-> << >>, bindings |-> << >>]

\* ------------------------------------------------- compile_xnat2bids_list
\* x2b_param_dict after `for section_name, section_dict in arg_dict_copy.items()`
RECURSIVE ResolveLoop(_, _, _)
ResolveLoop(sections, session, x2b_param_dict) ==
    IF sections = << >> THEN x2b_param_dict
    ELSE IF Head(sections).k = "xnat2bids-args"
    THEN ResolveLoop(Tail(sections), session, Head(sections).v)
    ELSE IF << Head(sections).k >> = session
    THEN ResolveLoop(Tail(sections), session, Update(x2b_param_dict, Head(sections).v))
    ELSE ResolveLoop(Tail(sections), session, x2b_param_dict)

Resolved(session, arg_dict) == ResolveLoop(arg_dict, session, << >>)

\* the dictionary the update of the session block is written to, were the
\* loop run on arg_dict itself instead of a deep copy
ArgDictAfterCompile_NoDeepCopy(session, arg_dict) ==
    IF Has(arg_dict, "xnat2bids-args")
       /\ \E i \in 1..Len(arg_dict) :
              /\ << arg_dict[i].k >> = session
              /\ i > IndexOf(arg_dict, "xnat2bids-args")
    THEN Put(arg_dict, "xnat2bids-args", Resolved(session, arg_dict))
    ELSE arg_dict

\* arg_dict as the call leaves it: the loop works on copy.deepcopy(arg_dict)
ArgDictAfterCompile(session, arg_dict) == arg_dict

compile_xnat2bids_list(session, arg_dict) ==
    parse_x2b_params(Resolved(session, arg_dict), session, << >>)

\* ----------------------------------------------------- compile_slurm_list
RECURSIVE SlurmLoop(_)
SlurmLoop(d) ==
    IF d = << >> THEN << >>
    ELSE (IF Head(d).v # StrV(<< >>)
          THEN << << DASH, DASH, Head(d).k, SP >> \o Fmt(Head(d).v) >>
          ELSE << >>) \o SlurmLoop(Tail(d))

compile_slurm_list(arg_dict) == SlurmLoop(Get(arg_dict, "slurm-args"))

\* ------------------------------------------------ assemble_argument_lists
\* list.insert(i, x), i counted from 0: past the end, x goes last
InsertAt(l, i, x) ==
    LET j == IF i < Len(l) THEN i ELSE Len(l)
    IN  SubSeq(l, 1, j) \o << x >> \o SubSeq(l, j + 1, Len(l))

\* param.startswith('--pass')
StartsWithPass(param) ==
    Len(param) >= 3 /\ param[1] = DASH /\ param[2] = DASH /\ param[3] = "pass"

\* os.environ["USER"]
oscar_user == "oscaruser"

SLASH == "/"

\* os.path.dirname(path): the text before the last slash
Dirname(path) ==
    LET cuts == { i \in 1..Len(path) : path[i] = SLASH }
    IN  IF cuts = {} THEN << >>
        ELSE SubSeq(path, 1, (CHOOSE i \in cuts : \A j \in cuts : j <= i) - 1)

\* f"/oscar/scratch/{oscar_user}/logs/%x-{session}-%J.txt"
DefaultOutput(session) ==
    << "/oscar/scratch/", oscar_user, "/logs", SLASH, "%x-" >> \o session \o << "-%J.txt" >>

UserEntry(user) == << DASH, DASH, "user", SP >> \o user
PassEntry(password) == << DASH, DASH, "pass", SP >> \o password

\* "--verbose" in x2b_arglist: the level set_logging_level leaves is DEBUG
DebugLevel(x2b_arglist) == \E i \in 1..Len(x2b_arglist) : x2b_arglist[i] = Flag("verbose")

\* one turn of `for session in arg_dict['xnat2bids-args']['sessions']`, from
\* the result of compile_xnat2bids_list on: the tuple appended to
\* argument_lists, bids_root as the turn leaves it, the directories it makes
\* sure of, and what it logs at DEBUG level
AssembleTurn(arg_dict, session, user, password, bids_root, compiled) ==
    LET with_user == InsertAt(compiled.list, 2, UserEntry(user))
        with_pass == InsertAt(with_user, 3, PassEntry(password))
        has_output == Has(Get(arg_dict, "slurm-args"), "output")
        output == IF has_output THEN Fmt(Get(Get(arg_dict, "slurm-args"), "output"))
                  ELSE DefaultOutput(session)
        slurm_param_list ==
            IF has_output THEN compile_slurm_list(arg_dict)
            ELSE Append(compile_slurm_list(arg_dict), << DASH, DASH, "output", SP >> \o output)
        has_root == Has(Get(arg_dict, "xnat2bids-args"), "bids_root")
        x2b_param_list == IF has_root THEN with_pass ELSE InsertAt(with_pass, 1, bids_root)
        new_root == IF has_root THEN with_pass[2] ELSE bids_root
        bindings == IF has_root THEN compiled.bindings
                    ELSE Append(compiled.bindings, StrV(bids_root))
    IN  [x2b |-> x2b_param_list,
         slurm |-> slurm_param_list,
         bindings |-> bindings,
         bids_root |-> new_root,
         dirs |-> { Dirname(output), new_root },
         debug |-> DebugLevel(x2b_param_list),
         logged |-> SelectSeq(x2b_param_list, LAMBDA param : ~StartsWithPass(param))]

\* -------------------------------------------------------- launch_x2b_jobs
DOLLAR == "$"
BACKSLASH == "\\"
REDACTED == "[REDACTED]"

\* JoinRange puts a space between the pieces; the pieces of a text are glued
RECURSIVE Glue(_, _, _)
Glue(parts, lo, hi) ==
    IF lo > hi THEN << >>
    ELSE IF lo = hi THEN parts[lo]
    ELSE LET mid == (lo + hi) \div 2
         IN  Glue(parts, lo, mid) \o Glue(parts, mid + 1, hi)

\* s.replace('$', '\$')
EscapeDollar(s) ==
    Glue([i \in 1..Len(s) |-> IF s[i] = DOLLAR THEN << BACKSLASH, DOLLAR >> ELSE << s[i] >>],
         1, Len(s))

\* ' '.join(f"-B {path}" for path in bindings_paths)
BindOptions(bindings_paths) ==
    JoinSp([i \in 1..Len(bindings_paths) |-> << DASH, "B", SP >> \o Fmt(bindings_paths[i])])

\* f'""apptainer exec --no-home {bindings} {simg} xnat2bids {xnat2bids_options}""'
SbatchScript(args, simg) ==
    << DQ, DQ, "apptainer", SP, "exec", SP, DASH, DASH, "no-home", SP >>
        \o BindOptions(args.bindings) \o << SP >> \o simg
        \o << SP, "xnat2bids", SP >> \o JoinSp(args.x2b) \o << DQ, DQ >>

\* the regular expression --pass\s+.*?(?=\s--) at position i of s: the text
\* "--pass", at least one space, then as little as possible up to a space
\* that two dashes follow
PassAt(s, i) ==
    /\ i + 3 <= Len(s)
    /\ s[i] = DASH /\ s[i + 1] = DASH /\ s[i + 2] = "pass" /\ s[i + 3] = SP

\* (?=\s--) at position j
FlagAhead(s, j) ==
    j + 2 <= Len(s) /\ s[j] = SP /\ s[j + 1] = DASH /\ s[j + 2] = DASH

\* the first position after the run of spaces that follows "--pass" at i
AfterSpaces(s, i) ==
    CHOOSE j \in (i + 4)..(Len(s) + 1) :
        /\ \A h \in (i + 3)..(j - 1) : s[h] = SP
        /\ j = Len(s) + 1 \/ s[j] # SP

\* where a match starting at i ends (the position after it); 0 when none.
\* \s+ takes the whole run of spaces and .*? stops at the first lookahead
\* that holds; only when there is none does \s+ give a space back.
MatchEnd(s, i) ==
    LET later == { j \in AfterSpaces(s, i)..Len(s) : FlagAhead(s, j) }
        inrun == { j \in (i + 4)..(AfterSpaces(s, i) - 1) : FlagAhead(s, j) }
    IN  IF ~PassAt(s, i) THEN 0
        ELSE IF later # {} THEN CHOOSE j \in later : \A h \in later : j <= h
        ELSE IF inrun # {} THEN CHOOSE j \in inrun : \A h \in inrun : j >= h
        ELSE 0

\* re.sub(r'--pass\s+.*?(?=\s--)', '--pass [REDACTED]', s), from position from
RECURSIVE RedactFrom(_, _)
RedactFrom(s, from) ==
    LET starts == { i \in from..Len(s) : MatchEnd(s, i) # 0 }
        first == CHOOSE i \in starts : \A h \in starts : i <= h
    IN  IF starts = {} THEN SubSeq(s, from, Len(s))
        ELSE SubSeq(s, from, first - 1) \o << DASH, DASH, "pass", SP, REDACTED >>
                 \o RedactFrom(s, MatchEnd(s, first))

Redact(s) == RedactFrom(s, 1)

\* the script written to the log when the pattern is never applied
Redact_NoSubstitution(s) == s

\* shlex.split(s) of a text without quotes: the pieces between spaces
ShlexSplit(s) == SelectSeq(Split(s, SP), LAMBDA piece : piece # << >>)

\* shlex.join(cmd): an argument with a character outside [A-Za-z0-9@%+=:,./-]
\* is put in single quotes
UnsafeAtoms == { SP, DQ, DOLLAR, BACKSLASH, REDACTED, "'" }

ShlexQuote(arg) ==
    IF arg = << >> THEN << "'", "'" >>
    ELSE IF \A i \in 1..Len(arg) : arg[i] \notin UnsafeAtoms THEN arg
    ELSE << "'" >>
             \o Glue([i \in 1..Len(arg) |->
                         IF arg[i] = "'" THEN << "'", DQ, "'", DQ, "'" >> ELSE << arg[i] >>],
                     1, Len(arg))
             \o << "'" >>

ShlexJoin(cmd) == JoinSp([i \in 1..Len(cmd) |-> ShlexQuote(cmd[i])])

\* sbatch_cmd: the command that is run
SbatchCmd(args, simg) ==
    << << "sbatch" >> >> \o ShlexSplit(JoinSp(args.slurm))
        \o << << DASH, DASH, "wrap" >>, EscapeDollar(SbatchScript(args, simg)) >>

\* shlex.join(sbatch_cmd_without_password): the command that is logged
LoggedCmd(args, simg) ==
    ShlexJoin(<< << "sbatch" >> >> \o ShlexSplit(JoinSp(args.slurm))
                  \o << << DASH, DASH, "wrap" >>,
                        Redact(EscapeDollar(SbatchScript(args, simg))) >>)

\* "--export-only" not in xnat2bids_param_list
WantsValidation(args) == \A i \in 1..Len(args.x2b) : args.x2b[i] # Flag("export-only")

\* ----------------------------------------------------------- fetch_job_ids
NL == "\n"
SUBMITTED == "Submitted batch job "

\* what sbatch writes to its standard output when it accepts a job
Accepted(job) == << SUBMITTED >> \o job \o << NL >>

\* bytes.strip()
Strip(s) ==
    LET keep == { i \in 1..Len(s) : s[i] \notin { SP, NL } }
    IN  IF keep = {} THEN << >>
        ELSE SubSeq(s, CHOOSE i \in keep : \A j \in keep : i <= j,
                       CHOOSE i \in keep : \A j \in keep : i >= j)

\* line.replace(b'Submitted batch job ', b'').strip().decode('utf-8')
JobIdOf(line) == Strip(Remove(line, SUBMITTED))

\* stdout is a list here: one identifier for each captured output
fetch_job_ids(stdout) == [i \in 1..Len(stdout) |-> JobIdOf(stdout[i])]

\* ----------------------------------------- extract_params on its own (SpecX)
\* every str over XpAlphabet up to MaxStrLen atoms, and the values of the tests
XpAlphabet == { "1", "9", "a", SP, COMMA, DASH }

XpStrings == UNION { [1..n -> XpAlphabet] : n \in 0..MaxStrLen }

XpScenarioStrings ==
    { << "1", DASH, "4", COMMA, SP, "7", COMMA, SP, "1", "0" >>,
      << "1", DASH, "4", COMMA, "7", COMMA, "1", "0" >>,
      << "3", DASH, "5", COMMA, SP, "7" >>,
      << "1", "0", DASH, "1", "2" >> }

XpLists ==
    { IListV(Range(a, b)) : a \in 1..MaxSeqNo, b \in 0..(MaxSeqNo + 1) }
        \cup { SListV(<< << "t1w" >>, << "t2w" >> >>), IntV(5) }

XpValues == { StrV(s) : s \in XpStrings \cup XpScenarioStrings } \cup XpLists

XpIdle == xp_param = "" /\ xp_value = IntV(0) /\ xp_out = Raised /\ xp_pc = "idle"

NoResult == [st |-> "none", list |-> << >>, bindings |-> << >>]

CIdle ==
    /\ c_arg_dict0 = << >>
    /\ c_arg_dict = << >>
    /\ c_session = << >>
    /\ c_x2b_param_dict = << >>
    /\ c_out1 = NoResult
    /\ c_out2 = NoResult
    /\ c_pc = "idle"

NoSummary == [launched |-> 0, ids |-> << >>, val_launched |-> 0, val_ids |-> << >>]

MIdle ==
    /\ m_pc = "idle" /\ m_mode = "run" /\ m_has_config = FALSE /\ m_user_cfg = << >>
    /\ m_password = << >> /\ m_arg_dict = << >> /\ m_bids_root = << >> /\ m_simg = << >>
    /\ m_i = 0 /\ m_compiled = << >> /\ m_argument_lists = << >> /\ m_output = << >>
    /\ m_needs_validation = FALSE /\ m_x2b_jobs = << >> /\ m_bids_dirs = << >>
    /\ m_val_output = << >> /\ m_gaps = << >> /\ m_prompts = 0 /\ m_queries = 0
    /\ m_conn_open = 0 /\ m_dirs = {} /\ m_log = << >> /\ m_executed = << >>
    /\ m_next_job = 0 /\ m_summary = NoSummary /\ m_exit = 0 - 1 /\ m_reason = ""
    /\ m_confirm = ""

DIdle ==
    /\ d_pc = "idle" /\ d_tree = << >> /\ d_paths = {} /\ d_remote = << >>
    /\ d_pi = 0 /\ d_study = 0 /\ d_sessions = << >> /\ d_k = 0
    /\ d_missing = << >> /\ d_conn_open = 0 /\ d_queries = 0

AIdle ==
    /\ a_pc = "idle" /\ a_argument_lists = << >> /\ a_output = << >>
    /\ a_arg_dict = << >> /\ a_i = 0 /\ a_calls = 0 /\ a_submitted = << >>
    /\ a_next_job = 0

XpInit ==
    /\ xp_param \in {"includeseq", "skipseq"}
    /\ xp_value \in XpValues
    /\ xp_out = Raised
    /\ xp_pc = "call"
    /\ CIdle
    /\ MIdle
    /\ DIdle
    /\ AIdle

XpCall ==
    /\ xp_pc = "call"
    /\ xp_out' = extract_params(xp_param, xp_value)
    /\ xp_pc' = "done"
    /\ UNCHANGED << xp_param, xp_value, c_vars, m_vars, d_vars, a_vars >>

XpNext == XpCall

SpecX == XpInit /\ [][XpNext]_vars

\* The comma list as the specification reads it, stated without the code's
\* left-to-right scan: the text without spaces, cut at its commas.
C3_Text == SelectSeq(xp_value.s, LAMBDA c : c # SP)
C3_Commas == { i \in 1..Len(C3_Text) : C3_Text[i] = COMMA }
C3_NTokens == Cardinality(C3_Commas) + 1
C3_Cut(k) ==
    IF k = 0 THEN 0
    ELSE IF k = C3_NTokens THEN Len(C3_Text) + 1
    ELSE CHOOSE p \in C3_Commas : Cardinality({ q \in C3_Commas : q < p }) = k - 1
C3_Token(k) == SubSeq(C3_Text, C3_Cut(k - 1) + 1, C3_Cut(k) - 1)
C3_Dashes(tok) == { i \in 1..Len(tok) : tok[i] = DASH }
C3_IsNumeral(d) == Len(d) > 0 /\ \A i \in 1..Len(d) : d[i] \in DigitSet
C3_Value(d) ==
    CHOOSE v \in 0..(10 ^ Len(d) - 1) :
        \A i \in 1..Len(d) : (v \div (10 ^ (Len(d) - i))) % 10 = DigitVal(d[i])
C3_DashAt(tok) == CHOOSE p \in C3_Dashes(tok) : TRUE
C3_IsRange(tok) ==
    /\ Cardinality(C3_Dashes(tok)) = 1
    /\ C3_IsNumeral(SubSeq(tok, 1, C3_DashAt(tok) - 1))
    /\ C3_IsNumeral(SubSeq(tok, C3_DashAt(tok) + 1, Len(tok)))
C3_Lower(tok) == C3_Value(SubSeq(tok, 1, C3_DashAt(tok) - 1))
C3_Upper(tok) == C3_Value(SubSeq(tok, C3_DashAt(tok) + 1, Len(tok)))
C3_WellFormed ==
    \A k \in 1..C3_NTokens : C3_Dashes(C3_Token(k)) = {} \/ C3_IsRange(C3_Token(k))
C3_Entries(tok) ==
    IF C3_Dashes(tok) = {}
    THEN << << DASH, DASH, xp_param, SP >> \o tok >>
    ELSE [i \in 1..(C3_Upper(tok) - C3_Lower(tok) + 1) |->
             << DASH, DASH, xp_param, SP >> \o IntToStr(C3_Lower(tok) + i - 1)]
RECURSIVE C3_EntriesUpTo(_)
C3_EntriesUpTo(k) ==
    IF k = 0 THEN << >> ELSE C3_EntriesUpTo(k - 1) \o C3_Entries(C3_Token(k))

\* C2: for includeseq / skipseq and integers a <= b, extract_params gives the
\* range string "a-b" the same output as the explicit list [a, ..., b].
C2_RangeEqualsList ==
    (/\ xp_pc = "done"
     /\ xp_value.t = "str"
     /\ C3_IsRange(xp_value.s)
     /\ C3_Lower(xp_value.s) <= C3_Upper(xp_value.s))
    => xp_out = extract_params(xp_param,
                               IListV(Range(C3_Lower(xp_value.s), C3_Upper(xp_value.s))))

\* C3: a str value of includeseq / skipseq is cut at its commas with spaces
\* ignored; in token order a token with a dash gives one --name v for each
\* integer from its lower to its upper bound, both included and ascending, any
\* other token gives one --name token, and the entries are joined by single
\* spaces.  A token with a dash that is not <digits>-<digits> raises.
C3_RangeExpansion ==
    (xp_pc = "done" /\ xp_value.t = "str")
    => IF C3_WellFormed
       THEN xp_out = Ok(JoinSp(C3_EntriesUpTo(C3_NTokens)))
       ELSE xp_out = Raised

C3_Entry(d) == << DASH, DASH, "includeseq", SP >> \o d

C3_Witness ==
    /\ xp_pc = "done"
    /\ xp_param = "includeseq"
    /\ xp_value = StrV(<< "1", DASH, "4", COMMA, SP, "7", COMMA, SP, "1", "0" >>)
    /\ xp_out = Ok(C3_Entry(<< "1" >>) \o << SP >> \o C3_Entry(<< "2" >>) \o << SP >>
                      \o C3_Entry(<< "3" >>) \o << SP >> \o C3_Entry(<< "4" >>) \o << SP >>
                      \o C3_Entry(<< "7" >>) \o << SP >> \o C3_Entry(<< "1", "0" >>))

\* ------------------------- compile_xnat2bids_list called directly (SpecC)
\* The dictionaries enumerated: an xnat2bids-args section of up to MaxKeys
\* entries of CPool in any order (and the sections of the tests), a
\* slurm-args section, and at most one block named after session E1, placed
\* before or after xnat2bids-args.
E1 == << "E1" >>
E2 == << "E2" >>

CPool ==
    { Entry("bids_root", StrV(<< "/out" >>)),
      Entry("bids_root", StrV(<< >>)),
      Entry("bidsmap-file", StrV(<< "/map.json" >>)),
      Entry("bidsmap-file", SListV(<< << "/a" >>, << "/b" >> >>)),
      Entry("dicomfix-config", StrV(<< "/fix.json" >>)),
      Entry("host", StrV(<< "xnat" >>)),
      Entry("overwrite", BoolV(TRUE)),
      Entry("overwrite", BoolV(FALSE)),
      Entry("export-only", BoolV(TRUE)),
      Entry("cleanup", StrV(<< "no" >>)),
      Entry("includeseq", IListV(<< 1, 2 >>)),
      Entry("includeseq", StrV(<< "1", DASH, "2" >>)),
      Entry("skipseq", StrV(<< "a", DASH, "b" >>)),
      Entry("sessions", SListV(<< E1, E2 >>)),
      Entry("project", StrV(<< "PI_STUDY" >>)),
      Entry("bogus", StrV(<< "x" >>)) }
        \cup { Entry("verbose", IntV(n)) : n \in 0..MaxVerbose }

DistinctKeys(d) == \A i, j \in 1..Len(d) : d[i].k = d[j].k => i = j

CDicts == { d \in UNION { [1..n -> CPool] : n \in 0..MaxKeys } : DistinctKeys(d) }

CScenarioDicts ==
    { << Entry("bids_root", StrV(<< "/out" >>)), Entry("overwrite", BoolV(TRUE)),
         Entry("verbose", IntV(2)) >>,
      << Entry("bids_root", StrV(<< "/path/to/bids" >>)),
         Entry("includeseq", SListV(<< << "t1w" >>, << "t2w" >> >>)),
         Entry("export-only", BoolV(TRUE)), Entry("verbose", IntV(3)) >> }

CBlockPool ==
    { Entry("bids_root", StrV(<< "/other" >>)),
      Entry("overwrite", BoolV(FALSE)),
      Entry("overwrite", BoolV(TRUE)),
      Entry("includeseq", IListV(<< 3 >>)),
      Entry("verbose", IntV(1)),
      Entry("bogus", StrV(<< "x" >>)) }

CSlurm == Entry("slurm-args", << Entry("time", StrV(<< "04:00:00" >>)) >>)

CArgDicts ==
    { << Entry("xnat2bids-args", d), CSlurm >> : d \in CDicts \cup CScenarioDicts }
        \cup { << Entry("xnat2bids-args", d), CSlurm, Entry("E1", << b >>) >> :
                   d \in CDicts, b \in CBlockPool }
        \cup { << Entry("E1", << b >>), Entry("xnat2bids-args", d), CSlurm >> :
                   d \in CDicts, b \in CBlockPool }

CInit ==
    /\ c_arg_dict0 \in CArgDicts
    /\ c_arg_dict = c_arg_dict0
    /\ c_session \in { E1, E2 }
    /\ c_x2b_param_dict = << >>
    /\ c_out1 = NoResult
    /\ c_out2 = NoResult
    /\ c_pc = "call1"
    /\ XpIdle
    /\ MIdle
    /\ DIdle
    /\ AIdle

\* x2b_param_list, bindings = compile_xnat2bids_list(session, arg_dict, user)
CCompile ==
    /\ c_pc = "call1"
    /\ c_x2b_param_dict' = Resolved(c_session, c_arg_dict)
    /\ c_out1' = compile_xnat2bids_list(c_session, c_arg_dict)
    /\ c_arg_dict' = ArgDictAfterCompile(c_session, c_arg_dict)
    /\ c_pc' = "call2"
    /\ UNCHANGED << c_arg_dict0, c_session, c_out2, xp_vars, m_vars, d_vars, a_vars >>

\* the same call once more, on the dictionary as the first call left it
CCompileAgain ==
    /\ c_pc = "call2"
    /\ c_x2b_param_dict' = Resolved(c_session, c_arg_dict)
    /\ c_out2' = compile_xnat2bids_list(c_session, c_arg_dict)
    /\ c_arg_dict' = ArgDictAfterCompile(c_session, c_arg_dict)
    /\ c_pc' = "done"
    /\ UNCHANGED << c_arg_dict0, c_session, c_out1, xp_vars, m_vars, d_vars, a_vars >>

CNext == CCompile \/ CCompileAgain

SpecC == CInit /\ [][CNext]_vars

Count(list, x) == Cardinality({ i \in 1..Len(list) : list[i] = x })

FlagParams == { k \in DOMAIN xnat2bids_params : xnat2bids_params[k][1] = FLAG_ONLY }

C8_Falsy == { BoolV(FALSE), IntV(0), StrV(<< >>), SListV(<< >>), IListV(<< >>) }

\* C8: in the list parse_x2b_params returns, a FLAG parameter has one --name
\* entry when its configured value is truthy and none when it is false or
\* absent, and verbose has as many --verbose entries as its configured
\* integer.
C8_FlagCounts ==
    (c_pc \in {"call2", "done"} /\ c_out1.st = "ok")
    => /\ \A f \in FlagParams :
              Count(c_out1.list, << DASH, DASH, f >>) =
                  (IF Has(c_x2b_param_dict, f) /\ Get(c_x2b_param_dict, f) \notin C8_Falsy
                   THEN 1 ELSE 0)
       /\ Count(c_out1.list, << DASH, DASH, "verbose" >>) =
              (IF Has(c_x2b_param_dict, "verbose")
               THEN Get(c_x2b_param_dict, "verbose").n ELSE 0)

C8_Witness ==
    /\ c_pc = "done"
    /\ c_x2b_param_dict = << Entry("bids_root", StrV(<< "/out" >>)),
                             Entry("overwrite", BoolV(TRUE)), Entry("verbose", IntV(2)) >>
    /\ c_out1.list = << c_session, << "/out" >>, << DASH, DASH, "overwrite" >>,
                        << DASH, DASH, "verbose" >>, << DASH, DASH, "verbose" >> >>

\* ------------------------------------------------------ merge_config_files
\* user_cfg['slurm-args'] of a file without that section: KeyError
MergeRaises(user_cfg) == ~Has(user_cfg, "slurm-args")

merge_config_files(user_cfg, default_cfg) ==
    LET default_x2b == Get(default_cfg, "xnat2bids-args")
        x2b == IF Has(user_cfg, "xnat2bids-args")
               THEN Update(default_x2b, Get(user_cfg, "xnat2bids-args"))
               ELSE default_x2b
        slurm == Update(Get(default_cfg, "slurm-args"), Get(user_cfg, "slurm-args"))
    IN  << Entry("xnat2bids-args", x2b), Entry("slurm-args", slurm) >>
            \o SelectSeq(user_cfg, LAMBDA sec : sec.k \notin {"slurm-args", "xnat2bids-args"})

merge_default_params(has_config, user_cfg, default_params) ==
    IF has_config THEN merge_config_files(user_cfg, default_params) ELSE default_params

\* ------------------------------------------------- the remote service (XNAT)
\* the inventory the requests of a run are answered from
E3 == << "E3" >>

SessionsOfSubject(subj) ==
    IF subj = << "s1" >> THEN << E1 >>
    ELSE IF subj = << "s2" >> THEN << E2 >>
    ELSE << >>

SessionsOfProject == << E1, E2 >>

\* for session in extra: if session not in base: base.append(session)
RECURSIVE AppendMissing(_, _)
AppendMissing(base, extra) ==
    IF extra = << >> THEN base
    ELSE AppendMissing(IF \E i \in 1..Len(base) : base[i] = Head(extra)
                       THEN base ELSE Append(base, Head(extra)),
                       Tail(extra))

\* ------------------------------------------------ fetch_requested_sessions
\* the GET requests the call sends when none of them fails
PlannedQueries(x2b) ==
    IF ~Has(x2b, "project") THEN 0
    ELSE IF Has(x2b, "subjects") THEN Len(Items(Get(x2b, "subjects")))
    ELSE 1

RECURSIVE SubjectSessions(_)
SubjectSessions(subjects) ==
    IF subjects = << >> THEN << >>
    ELSE SessionsOfSubject(Head(subjects)) \o SubjectSessions(Tail(subjects))

fetch_requested_sessions(x2b) ==
    (IF ~Has(x2b, "project") THEN << >>
     ELSE IF Has(x2b, "subjects") THEN SubjectSessions(Items(Get(x2b, "subjects")))
     ELSE SessionsOfProject)
        \o (IF Has(x2b, "sessions") THEN Items(Get(x2b, "sessions")) ELSE << >>)

\* ------------------------------------------------------------------ main()
\* x2b_default_config.toml, loaded at the start of every run
DefaultConfig ==
    << Entry("slurm-args", << Entry("time", StrV(<< "04:00:00" >>)),
                              Entry("job-name", StrV(<< "xnat2bids" >>)) >>),
       Entry("xnat2bids-args", << Entry("host", StrV(<< "xnat" >>)) >>) >>

MUser == << "u" >>

\* f"/users/{user}/bids-export/"
HomeBidsRoot(user) == << "/users/" >> \o user \o << "/bids-export/" >>

\* f"/oscar/data/bnc/simgs/brownbnc/xnat-tools-{version}.sif"
VersionSimg(version) == << "/oscar/data/bnc/simgs/brownbnc/xnat-tools-" >> \o version \o << ".sif" >>

\* fetch_latest_simg('xnat-tools')
LatestSimg == << "/oscar/data/bnc/simgs/xnat-tools-latest.sif" >>

\* --------------------------------------------------- launch_bids_validator
UNDERSCORE == "_"
COLON == ":"

\* the project each session belongs to on the remote service
ProjectOf(session) ==
    IF session = E3 THEN << "PI", UNDERSCORE, "OTHER" >> ELSE << "PI", UNDERSCORE, "STUDY" >>

\* str.lower() of the words project names are made of
Lower(s) ==
    [i \in 1..Len(s) |-> CASE s[i] = "PI" -> "pi"
                           [] s[i] = "STUDY" -> "study"
                           [] s[i] = "OTHER" -> "other"
                           [] OTHER -> s[i]]

prepare_path_prefixes(project) ==
    [pi_prefix |-> Lower(Split(project, UNDERSCORE)[1]),
     study_prefix |-> Lower(<< "study-" >> \o Split(project, UNDERSCORE)[2])]

\* f"{bids_root}/{pi_prefix}/{study_prefix}/bids"
BidsDir(bids_root, session) ==
    LET prefixes == prepare_path_prefixes(ProjectOf(session))
    IN  bids_root \o << SLASH >> \o prefixes.pi_prefix \o << SLASH >>
            \o prefixes.study_prefix \o << SLASH, "bids" >>

\* bids_experiments after the loop over the sessions
BidsExperiments(bids_root, sessions) ==
    AppendMissing(<< >>, [i \in 1..Len(sessions) |-> BidsDir(bids_root, sessions[i])])

\* sep.join(parts)
JoinWith(parts, sep) ==
    Glue([i \in 1..Len(parts) |-> IF i = 1 THEN parts[i] ELSE << sep >> \o parts[i]],
         1, Len(parts))

\* "export DENO_DIR=/scratch/deno; " + shlex.join(cmd)
ValidatorScript(bids_experiment_dir) ==
    << "export", SP, "DENO_DIR=/scratch/deno;", SP >>
        \o ShlexJoin(<< << "apptainer" >>, << "exec" >>, << DASH, DASH, "no-home" >>,
                        << DASH, "B" >>, bids_experiment_dir \o << COLON, "/bids", COLON, "ro" >>,
                        << DASH, "B" >>, << "/oscar/scratch/", oscar_user, COLON, "/scratch" >>,
                        LatestSimg, << "deno" >>, << "run" >>, << DASH, "A" >>, << DASH, "qr" >>,
                        << "jsr:@bids/validator" >>, << "/bids" >> >>)

\* bids_val_slurm_params, "--kill-on-invalid-dep=yes" included
ValidatorSlurm(arg_dict) ==
    LET slurm == Get(arg_dict, "slurm-args")
        params == compile_slurm_list(arg_dict)
        x2b_output == Split(Fmt(Get(slurm, "output")), SLASH)
        val_output == JoinWith([x2b_output EXCEPT ![Len(x2b_output)] = << "%x-%J.txt" >>], SLASH)
    IN  (IF ~Has(slurm, "output")
         THEN Append(params, << DASH, DASH, "output", SP, "/oscar/scratch/", oscar_user,
                                "/logs", SLASH, "%x-%J.txt" >>)
         ELSE [i \in 1..Len(params) |->
                  IF Contains(params[i], "output")
                  THEN << DASH, DASH, "output", SP >> \o val_output ELSE params[i]])
            \o << << DASH, DASH, "kill-on-invalid-dep=yes" >> >>

\* slurm_options.replace('--job-name xnat2bids', '--job-name bids-validator')
RenameJob(slurm_options) ==
    [i \in 1..Len(slurm_options) |->
        IF /\ i > 4 /\ slurm_options[i] = "xnat2bids" /\ slurm_options[i - 1] = SP
           /\ slurm_options[i - 2] = "job-name"
           /\ slurm_options[i - 3] = DASH /\ slurm_options[i - 4] = DASH
        THEN "bids-validator" ELSE slurm_options[i]]

\* sbatch_bids_val_cmd
ValidatorCmd(arg_dict, bids_experiment_dir, job_deps) ==
    << << "sbatch" >>, << DASH, "d" >>, << "afterok", COLON >> \o JoinWith(job_deps, COLON) >>
        \o ShlexSplit(RenameJob(JoinSp(ValidatorSlurm(arg_dict))))
        \o << << DASH, DASH, "wrap" >>, ValidatorScript(bids_experiment_dir) >>

\* ------------------------------------------------------ diff_data_directory
\* str.upper() of the words directory names are made of
Upper(s) ==
    [i \in 1..Len(s) |-> CASE s[i] = "pi" -> "PI"
                           [] s[i] = "demo" -> "DEMO"
                           [] s[i] = "two" -> "TWO"
                           [] OTHER -> s[i]]

\* str.lower() of the words session labels are made of
LowerLabel(s) ==
    [i \in 1..Len(s) |-> CASE s[i] = "S1" -> "s1"
                           [] s[i] = "S2" -> "s2"
                           [] s[i] = "A" -> "a"
                           [] OTHER -> s[i]]

\* get_datetime(date): << year, month, day >> of the text before the first space
get_datetime(date) ==
    LET ymd == Split(Split(date, SP)[1], DASH)
    IN  << ToInt(ymd[1]), ToInt(ymd[2]), ToInt(ymd[3]) >>

\* datetime.datetime(l_time.tm_year, l_time.tm_mon, l_time.tm_mday)
DataDate(l_time) == << l_time.tm_year, l_time.tm_mon, l_time.tm_mday >>

\* a > b of two datetime values at midnight, with >= in place of >
Later_OrEqual(a, b) ==
    \/ a[1] > b[1]
    \/ a[1] = b[1] /\ a[2] > b[2]
    \/ a[1] = b[1] /\ a[2] = b[2] /\ a[3] >= b[3]

\* a > b of two datetime values at midnight
Later(a, b) ==
    \/ a[1] > b[1]
    \/ a[1] = b[1] /\ a[2] > b[2]
    \/ a[1] = b[1] /\ a[2] = b[2] /\ a[3] > b[3]

\* stu.name.split("-")[1]
StudyOf(name) == Split(name, DASH)[2]

\* f"{pi}_{study}".upper()
PiStudy(pi, study) == Upper(pi \o << UNDERSCORE >> \o study)

\* subj, sess of a session label; a label with two separators cannot be unpacked
LabelRaises(label) == Contains(label, UNDERSCORE) /\ Len(Split(label, UNDERSCORE)) # 2

SubjSess(label) ==
    IF Contains(label, UNDERSCORE)
    THEN [subj |-> Split(LowerLabel(label), UNDERSCORE)[1],
          sess |-> Split(LowerLabel(label), UNDERSCORE)[2]]
    ELSE [subj |-> label, sess |-> << "0", "1" >>]

\* f"{bids_root}/{pi}/study-{study}/bids/sub-{subj}/ses-{sess}"
SesPath(bids_root, pi, study, subj, sess) ==
    bids_root \o << SLASH >> \o pi \o << SLASH, "study", DASH >> \o study
        \o << SLASH, "bids", SLASH, "sub", DASH >> \o subj \o << SLASH, "ses", DASH >> \o sess

\* os.path.exists(path), and time.localtime(os.path.getctime(path))
PathExists(paths, path) == \E e \in paths : e.path = path
LocalTime(paths, path) == (CHOOSE e \in paths : e.path = path).l_time

\* whether the turn for one remote session appends it to missing_sessions
NeedsSync(paths, ses_path, session) ==
    IF ~PathExists(paths, ses_path) THEN TRUE
    ELSE \/ Later(get_datetime(session.insert_date), DataDate(LocalTime(paths, ses_path)))
         \/ Later(get_datetime(session.date), DataDate(LocalTime(paths, ses_path)))

Goto(label) == m_pc' = label /\ m_exit' = m_exit /\ m_reason' = m_reason

\* exit() ends the process with status 0; an exception nobody catches, with 1
Exit(code, why) == m_pc' = "exit" /\ m_exit' = code /\ m_reason' = why

X2bArgs == Get(m_arg_dict, "xnat2bids-args")

SessionList == IF Has(X2bArgs, "sessions") THEN Items(Get(X2bArgs, "sessions")) ELSE << >>

SetSessions(list) == Put(m_arg_dict, "xnat2bids-args", Put(X2bArgs, "sessions", SListV(list)))

\* lines 654-655
MVerify ==
    /\ m_pc = "verify"
    /\ IF ~m_has_config THEN Goto("merge")
       ELSE IF ~Has(m_user_cfg, "xnat2bids-args") THEN Exit(1, "KeyError")
       ELSE IF verify_parameters(Get(m_user_cfg, "xnat2bids-args")) # "ok"
       THEN Exit(0, verify_parameters(Get(m_user_cfg, "xnat2bids-args")))
       ELSE Goto("merge")
    /\ UNCHANGED << a_vars, d_vars, xp_vars, c_vars, m_confirm, m_mode, m_has_config, m_user_cfg, m_password,
                    m_arg_dict, m_bids_root, m_simg, m_i, m_compiled,
                    m_argument_lists, m_output, m_needs_validation, m_x2b_jobs,
                    m_bids_dirs, m_val_output, m_gaps, m_prompts, m_queries,
                    m_conn_open, m_dirs, m_log, m_executed, m_next_job, m_summary >>

\* lines 659-677
MMerge ==
    /\ m_pc = "merge"
    /\ IF m_has_config /\ MergeRaises(m_user_cfg)
       THEN Exit(1, "KeyError") /\ m_arg_dict' = m_arg_dict /\ m_simg' = m_simg
       ELSE LET merged == merge_default_params(m_has_config, m_user_cfg, DefaultConfig)
                x2b == Get(merged, "xnat2bids-args")
            IN  /\ Goto("resolve")
                /\ m_arg_dict' = IF Has(x2b, "version")
                                 THEN Put(merged, "xnat2bids-args", Del(x2b, "version"))
                                 ELSE merged
                /\ m_simg' = IF Has(x2b, "version")
                             THEN VersionSimg(Fmt(Get(x2b, "version")))
                             ELSE LatestSimg
    /\ UNCHANGED << a_vars, d_vars, xp_vars, c_vars, m_confirm, m_mode, m_has_config, m_user_cfg, m_password,
                    m_bids_root, m_i, m_compiled, m_argument_lists, m_output,
                    m_needs_validation, m_x2b_jobs, m_bids_dirs, m_val_output,
                    m_gaps, m_prompts, m_queries, m_conn_open, m_dirs, m_log,
                    m_executed, m_next_job, m_summary >>

\* lines 680-691: a request that fails raises, and the connection stays open
MResolve ==
    /\ m_pc = "resolve"
    /\ IF ~(\E key \in {"project", "subjects", "sessions"} : Has(X2bArgs, key))
       THEN Goto("mode") /\ UNCHANGED << m_queries, m_conn_open, m_arg_dict >>
       ELSE \E fail \in 0..PlannedQueries(X2bArgs) :
                IF fail > 0
                THEN /\ Exit(1, "HTTPError")
                     /\ m_queries' = m_queries + fail
                     /\ m_conn_open' = m_conn_open + 1
                     /\ m_arg_dict' = m_arg_dict
                ELSE LET sessions == fetch_requested_sessions(X2bArgs)
                     IN  /\ m_queries' = m_queries + PlannedQueries(X2bArgs)
                         /\ m_conn_open' = m_conn_open
                         /\ IF sessions = << >>
                            THEN Exit(0, "no_sessions") /\ m_arg_dict' = m_arg_dict
                            ELSE /\ Goto("mode")
                                 /\ m_arg_dict' = SetSessions(AppendMissing(SessionList, sessions))
    /\ UNCHANGED << a_vars, d_vars, xp_vars, c_vars, m_confirm, m_mode, m_has_config, m_user_cfg, m_password,
                    m_bids_root, m_simg, m_i, m_compiled, m_argument_lists, m_output,
                    m_needs_validation, m_x2b_jobs, m_bids_dirs, m_val_output,
                    m_gaps, m_prompts, m_dirs, m_log, m_executed, m_next_job,
                    m_summary >>

\* what diff_data_directory can return to main
GapLists == { << >>, << E3 >>, << E1, E3 >> }

\* lines 693-715: the diff report, or the sessions to update
MMode ==
    /\ m_pc = "mode"
    /\ IF m_mode = "run"
       THEN Goto("sessions") /\ UNCHANGED << m_queries, m_conn_open, m_gaps >>
       ELSE \/ /\ Exit(1, "HTTPError")
               /\ m_queries' = m_queries + 1
               /\ m_conn_open' = m_conn_open + 1
               /\ m_gaps' = m_gaps
            \/ \E gaps \in GapLists :
                   /\ m_queries' = m_queries + 1
                   /\ m_conn_open' = m_conn_open
                   /\ m_gaps' = gaps
                   /\ IF m_mode = "diff" THEN m_pc' = "done" /\ m_exit' = 0 /\ m_reason' = "diff"
                      ELSE IF gaps = << >> THEN Exit(0, "synced")
                      ELSE Goto("confirm")
    /\ UNCHANGED << a_vars, d_vars, xp_vars, c_vars, m_confirm, m_mode, m_has_config, m_user_cfg, m_password,
                    m_arg_dict, m_bids_root, m_simg, m_i, m_compiled,
                    m_argument_lists, m_output, m_needs_validation, m_x2b_jobs,
                    m_bids_dirs, m_val_output, m_prompts, m_dirs, m_log, m_executed,
                    m_next_job, m_summary >>

\* what the user can type at "Would you like to proceed with the update?"
ConfirmInputs == {"y", "Y", "n", "N", "maybe"}

\* where the run goes on after an answer, were every answer taken for a yes
AfterConfirm_AnyProceeds(confirm) == "sessions"

\* where the run goes on after an answer (lines 720-727): out of the loop,
\* out of the process, or back to the prompt
AfterConfirm(confirm) ==
    IF confirm = "y" \/ confirm = "Y" THEN "sessions"
    ELSE IF confirm = "n" \/ confirm = "N" THEN "exit"
    ELSE "confirm"

\* lines 720-736: the confirmation prompt of update mode
MConfirm ==
    /\ m_pc = "confirm"
    /\ \E confirm \in ConfirmInputs :
           /\ m_prompts' = m_prompts + 1
           /\ m_confirm' = confirm
           /\ IF AfterConfirm(confirm) = "sessions"
              THEN Goto("sessions") /\ m_arg_dict' = SetSessions(AppendMissing(SessionList, m_gaps))
              ELSE IF AfterConfirm(confirm) = "exit"
              THEN Exit(0, "declined") /\ m_arg_dict' = m_arg_dict
              ELSE m_prompts < MaxPrompts /\ Goto("confirm") /\ m_arg_dict' = m_arg_dict
    /\ UNCHANGED << a_vars, d_vars, xp_vars, c_vars, m_mode, m_has_config, m_user_cfg, m_password,
                    m_bids_root, m_simg, m_i, m_compiled, m_argument_lists, m_output,
                    m_needs_validation, m_x2b_jobs, m_bids_dirs, m_val_output,
                    m_gaps, m_queries, m_conn_open, m_dirs, m_log, m_executed,
                    m_next_job, m_summary >>

\* what the user can type at "Enter Session(s) (comma-separated): "
PromptInputs == { << "E1" >>, << "E1", COMMA, SP, "E2" >> }

\* [s.strip() for s in sessions_input.split(',')]
PromptSessions(sessions_input) ==
    [i \in 1..Len(Split(sessions_input, COMMA)) |-> Strip(Split(sessions_input, COMMA)[i])]

\* lines 738-744
MSessions ==
    /\ m_pc = "sessions"
    /\ Goto("assemble")
    /\ m_i' = 1
    /\ IF SessionList # << >> THEN m_arg_dict' = m_arg_dict
       ELSE \E sessions_input \in PromptInputs :
                m_arg_dict' = SetSessions(PromptSessions(sessions_input))
    /\ UNCHANGED << a_vars, d_vars, xp_vars, c_vars, m_confirm, m_mode, m_has_config, m_user_cfg, m_password,
                    m_bids_root, m_simg, m_compiled, m_argument_lists, m_output,
                    m_needs_validation, m_x2b_jobs, m_bids_dirs, m_val_output,
                    m_gaps, m_prompts, m_queries, m_conn_open, m_dirs, m_log,
                    m_executed, m_next_job, m_summary >>

\* one turn of the loop of assemble_argument_lists (line 746)
MAssemble ==
    /\ m_pc = "assemble"
    /\ LET session == SessionList[m_i]
           compiled == compile_xnat2bids_list(session, m_arg_dict)
           turn == AssembleTurn(m_arg_dict, session, MUser, m_password, m_bids_root, compiled)
       IN  /\ m_compiled' = Append(m_compiled, [session |-> session, st |-> compiled.st,
                                                list |-> compiled.list])
           /\ IF compiled.st # "ok"
              THEN /\ Exit(1, compiled.st)
                   /\ UNCHANGED << m_i, m_argument_lists, m_bids_root, m_dirs, m_log >>
              ELSE IF turn.bids_root = << >>
              THEN /\ Exit(1, "FileNotFoundError")
                   /\ m_dirs' = m_dirs \cup { Dirname(DefaultOutput(session)) }
                   /\ UNCHANGED << m_i, m_argument_lists, m_bids_root, m_log >>
              ELSE /\ m_argument_lists' = Append(m_argument_lists,
                          [x2b |-> turn.x2b, slurm |-> turn.slurm, bindings |-> turn.bindings])
                   /\ m_bids_root' = turn.bids_root
                   /\ m_dirs' = m_dirs \cup turn.dirs
                   /\ m_log' = IF turn.debug
                               THEN Append(m_log, [message |-> "Argument List",
                                                   text |-> JoinSp(turn.logged)])
                               ELSE m_log
                   /\ IF m_i < Len(SessionList)
                      THEN Goto("assemble") /\ m_i' = m_i + 1
                      ELSE Goto("launch") /\ m_i' = 1
    /\ UNCHANGED << a_vars, d_vars, xp_vars, c_vars, m_confirm, m_mode, m_has_config, m_user_cfg, m_password,
                    m_arg_dict, m_simg, m_output, m_needs_validation, m_x2b_jobs,
                    m_bids_dirs, m_val_output, m_gaps, m_prompts, m_queries,
                    m_conn_open, m_executed, m_next_job, m_summary >>

\* where the run goes on when the output of submission i of n is captured,
\* were the loop left after its first turn
AfterReply_FirstOnly(i, n) == "jobids"

\* where the run goes on when the output of submission i of n is captured:
\* the next turn of `for args in argument_lists`, or the return at line 563
AfterReply(i, n) == IF i < n THEN "launch" ELSE "jobids"

\* one turn of the loop of launch_x2b_jobs, lines 518-558: the command is
\* built, logged and handed to sbatch
MLaunch ==
    /\ m_pc = "launch"
    /\ LET args == m_argument_lists[m_i]
       IN  /\ m_needs_validation' = (m_needs_validation \/ WantsValidation(args))
           /\ m_log' = IF DebugLevel(args.x2b)
                       THEN Append(m_log, [message |-> "Executing xnat2bids",
                                           text |-> LoggedCmd(args, m_simg)])
                       ELSE m_log
           /\ m_executed' = Append(m_executed, [job |-> "xnat2bids", session |-> args.x2b[1],
                                                cmd |-> SbatchCmd(args, m_simg)])
    /\ Goto("reply")
    /\ UNCHANGED << a_vars, d_vars, xp_vars, c_vars, m_confirm, m_mode, m_has_config, m_user_cfg, m_password,
                    m_arg_dict, m_bids_root, m_simg, m_i, m_compiled, m_argument_lists,
                    m_output, m_x2b_jobs, m_bids_dirs, m_val_output, m_gaps, m_prompts,
                    m_queries, m_conn_open, m_dirs, m_next_job, m_summary >>

\* lines 560-561 of the same turn: the coroutine waits until sbatch has ended
\* and keeps what it printed; sbatch accepts the job and prints its
\* identifier, or rejects it and prints nothing
MLaunchReply ==
    /\ m_pc = "reply"
    /\ \E accepted \in BOOLEAN :
           /\ m_output' = Append(m_output,
                  IF accepted THEN Accepted(IntToStr(FirstJobId + m_next_job)) ELSE << >>)
           /\ m_next_job' = IF accepted THEN m_next_job + 1 ELSE m_next_job
    /\ Goto(AfterReply(m_i, Len(m_argument_lists)))
    /\ m_i' = IF m_i < Len(m_argument_lists) THEN m_i + 1 ELSE 1
    /\ UNCHANGED << a_vars, d_vars, xp_vars, c_vars, m_confirm, m_mode, m_has_config, m_user_cfg, m_password,
                    m_arg_dict, m_bids_root, m_simg, m_compiled, m_argument_lists,
                    m_needs_validation, m_x2b_jobs, m_bids_dirs, m_val_output, m_gaps,
                    m_prompts, m_queries, m_conn_open, m_dirs, m_log, m_executed,
                    m_summary >>

\* lines 750-753
MJobIds ==
    /\ m_pc = "jobids"
    /\ m_x2b_jobs' = fetch_job_ids(m_output)
    /\ IF m_needs_validation THEN Goto("val_resolve") ELSE Goto("summary")
    /\ UNCHANGED << a_vars, d_vars, xp_vars, c_vars, m_confirm, m_mode, m_has_config, m_user_cfg, m_password,
                    m_arg_dict, m_bids_root, m_simg, m_i, m_compiled,
                    m_argument_lists, m_output, m_needs_validation, m_bids_dirs,
                    m_val_output, m_gaps, m_prompts, m_queries, m_conn_open, m_dirs,
                    m_log, m_executed, m_next_job, m_summary >>

\* lines 568-590 of launch_bids_validator: two requests for each session
MValidatorResolve ==
    /\ m_pc = "val_resolve"
    /\ \E fail \in 0..(2 * Len(SessionList)) :
           IF fail > 0
           THEN /\ Exit(1, "HTTPError")
                /\ m_queries' = m_queries + fail
                /\ m_conn_open' = m_conn_open + 1
                /\ UNCHANGED << m_bids_dirs, m_i >>
           ELSE /\ Goto("val_launch")
                /\ m_queries' = m_queries + 2 * Len(SessionList)
                /\ m_conn_open' = m_conn_open
                /\ m_bids_dirs' = BidsExperiments(m_bids_root, SessionList)
                /\ m_i' = 1
    /\ UNCHANGED << a_vars, d_vars, xp_vars, c_vars, m_confirm, m_mode, m_has_config, m_user_cfg, m_password,
                    m_arg_dict, m_bids_root, m_simg, m_compiled, m_argument_lists,
                    m_output, m_needs_validation, m_x2b_jobs, m_val_output, m_gaps,
                    m_prompts, m_dirs, m_log, m_executed, m_next_job, m_summary >>

\* one turn of `for bids_experiment_dir in bids_experiments` (lines 595-643);
\* the log level is the one the last conversion job left
MValidatorLaunch ==
    /\ m_pc = "val_launch"
    /\ LET cmd == ValidatorCmd(m_arg_dict, m_bids_dirs[m_i], m_x2b_jobs)
       IN  /\ m_log' = IF DebugLevel(m_argument_lists[Len(m_argument_lists)].x2b)
                       THEN Append(m_log, [message |-> "Executing bids validator",
                                           text |-> ShlexJoin(cmd)])
                       ELSE m_log
           /\ m_executed' = Append(m_executed, [job |-> "bids-validator", session |-> << >>,
                                                cmd |-> cmd])
    /\ \E accepted \in BOOLEAN :
           /\ m_val_output' = Append(m_val_output,
                  IF accepted THEN Accepted(IntToStr(FirstJobId + m_next_job)) ELSE << >>)
           /\ m_next_job' = IF accepted THEN m_next_job + 1 ELSE m_next_job
    /\ IF m_i < Len(m_bids_dirs)
       THEN Goto("val_launch") /\ m_i' = m_i + 1
       ELSE Goto("summary") /\ m_i' = 1
    /\ UNCHANGED << a_vars, d_vars, xp_vars, c_vars, m_confirm, m_mode, m_has_config, m_user_cfg, m_password,
                    m_arg_dict, m_bids_root, m_simg, m_compiled, m_argument_lists,
                    m_output, m_needs_validation, m_x2b_jobs, m_bids_dirs, m_gaps,
                    m_prompts, m_queries, m_conn_open, m_dirs, m_summary >>

\* lines 757-779: the summary, and main returns
MSummary ==
    /\ m_pc = "summary"
    /\ m_summary' = [launched |-> Len(m_x2b_jobs), ids |-> JoinSp(m_x2b_jobs),
                     val_launched |-> IF m_needs_validation THEN Len(fetch_job_ids(m_val_output))
                                      ELSE 0,
                     val_ids |-> IF m_needs_validation
                                 THEN JoinSp(fetch_job_ids(m_val_output)) ELSE << >>]
    /\ m_pc' = "done" /\ m_exit' = 0 /\ m_reason' = "returned"
    /\ UNCHANGED << a_vars, d_vars, xp_vars, c_vars, m_confirm, m_mode, m_has_config, m_user_cfg, m_password,
                    m_arg_dict, m_bids_root, m_simg, m_i, m_compiled,
                    m_argument_lists, m_output, m_needs_validation, m_x2b_jobs,
                    m_bids_dirs, m_val_output, m_gaps, m_prompts, m_queries,
                    m_conn_open, m_dirs, m_log, m_executed, m_next_job >>

\* --------------------------------------------------------- the runs checked
MPasswords == { << "pw" >>, << "p", SP, DASH, DASH, "q" >> }

MSelections ==
    { << >>,
      << Entry("sessions", SListV(<< E1 >>)) >>,
      << Entry("sessions", SListV(<< E1, E2 >>)) >>,
      << Entry("sessions", SListV(<< E1, E3 >>)) >>,
      << Entry("sessions", SListV(<< E1, E1 >>)) >>,
      << Entry("project", StrV(<< "PI_STUDY" >>)) >>,
      << Entry("project", StrV(<< "PI_STUDY" >>)),
         Entry("subjects", SListV(<< << "s1" >>, << "s2" >> >>)) >>,
      << Entry("project", StrV(<< "PI_STUDY" >>)),
         Entry("subjects", SListV(<< << "s9" >> >>)) >>,
      << Entry("subjects", SListV(<< << "s1" >> >>)) >>,
      << Entry("subjects", SListV(<< << "s1" >> >>)), Entry("sessions", SListV(<< E1 >>)) >>,
      << Entry("project", StrV(<< "PI_STUDY" >>)),
         Entry("subjects", SListV(<< << "s1" >> >>)), Entry("sessions", SListV(<< E3 >>)) >>,
      << Entry("project", StrV(<< "PI_STUDY" >>)), Entry("sessions", SListV(<< E3 >>)) >> }

MExtras ==
    { << >>,
      << Entry("bids_root", StrV(<< "/out" >>)) >>,
      << Entry("bids_root", StrV(<< >>)) >>,
      << Entry("host", StrV(<< >>)), Entry("verbose", IntV(1)) >>,
      << Entry("bids_root", StrV(<< "/out" >>)), Entry("overwrite", BoolV(TRUE)),
         Entry("verbose", IntV(2)) >>,
      << Entry("bogus", StrV(<< "x" >>)) >>,
      << Entry("export-only", BoolV(TRUE)) >>,
      << Entry("version", StrV(<< "v1" >>)), Entry("includeseq", StrV(<< "1", DASH, "2" >>)) >> }
        \cup { << Entry("verbose", IntV(n)) >> : n \in 1..MaxVerbose }

MBlocks ==
    { << >>,
      << Entry("E1", << Entry("bids_root", StrV(<< "/other" >>)) >>) >>,
      << Entry("E1", << Entry("bogus", StrV(<< "x" >>)) >>) >>,
      << Entry("E2", << Entry("export-only", BoolV(TRUE)) >>) >>,
      << Entry("E1", << Entry("verbose", IntV(1)), Entry("project", StrV(<< "P" >>)) >>) >> }

MUserSlurm == << Entry("mail-user", StrV(<< "me" >>)) >>

MUserCfgs ==
    { << Entry("xnat2bids-args", sel \o extra), Entry("slurm-args", MUserSlurm) >> \o blocks :
          sel \in MSelections, extra \in MExtras, blocks \in MBlocks }

\* files without one of the two reserved sections, and one that sets the log
MOddCfgs ==
    { << Entry("xnat2bids-args", << Entry("sessions", SListV(<< E1 >>)) >>) >>,
      << Entry("slurm-args", MUserSlurm) >>,
      << Entry("xnat2bids-args", << Entry("sessions", SListV(<< E1 >>)),
                                    Entry("verbose", IntV(1)) >>),
         Entry("slurm-args", << Entry("output", StrV(<< SLASH, "logs", SLASH, "x2b-%J.txt" >>)),
                                Entry("time", StrV(<< >>)) >>) >> }

MInit ==
    /\ m_pc = "verify"
    /\ \/ /\ m_has_config = TRUE
          /\ m_mode = "run"
          /\ m_user_cfg \in MUserCfgs \cup MOddCfgs
          /\ m_password \in MPasswords
       \/ /\ m_has_config = TRUE
          /\ m_mode \in {"diff", "update"}
          /\ m_user_cfg \in { cfg \in MUserCfgs : Len(cfg) = 2 /\ Len(cfg[1].v) <= 1 }
          /\ m_password = << "pw" >>
       \/ /\ m_has_config = FALSE
          /\ m_mode \in {"run", "diff", "update"}
          /\ m_user_cfg = << >>
          /\ m_password = << "pw" >>
    /\ m_arg_dict = << >>
    /\ m_bids_root = HomeBidsRoot(MUser)
    /\ m_simg = << >>
    /\ m_i = 0 /\ m_compiled = << >> /\ m_argument_lists = << >> /\ m_output = << >>
    /\ m_needs_validation = FALSE /\ m_x2b_jobs = << >> /\ m_bids_dirs = << >>
    /\ m_val_output = << >> /\ m_gaps = << >> /\ m_prompts = 0 /\ m_queries = 0
    /\ m_conn_open = 0 /\ m_dirs = {} /\ m_log = << >> /\ m_executed = << >>
    /\ m_next_job = 0 /\ m_summary = NoSummary /\ m_exit = 0 - 1 /\ m_reason = ""
    /\ m_confirm = ""
    /\ XpIdle
    /\ CIdle
    /\ DIdle
    /\ AIdle

Next ==
    \/ MVerify
    \/ MMerge
    \/ MResolve
    \/ MMode
    \/ MConfirm
    \/ MSessions
    \/ MAssemble
    \/ MLaunch
    \/ MLaunchReply
    \/ MJobIds
    \/ MValidatorResolve
    \/ MValidatorLaunch
    \/ MSummary

Spec == MInit /\ [][Next]_vars

\* ------------------------------------ diff_data_directory on its own (SpecDiff)
DRoot == << "/data" >>

Pad2(n) == IF n < 10 THEN << "0" >> \o IntToStr(n) ELSE IntToStr(n)

\* "YYYY-MM-DD", the form of the remote field date
DateText(ymd) == IntToStr(ymd[1]) \o << DASH >> \o Pad2(ymd[2]) \o << DASH >> \o Pad2(ymd[3])

\* "YYYY-MM-DD HH:MM:SS.f", the form of the remote field insert_date
StampText(ymd) == DateText(ymd) \o << SP, "13:45:10.0" >>

DDays == { << 2023, 12, 31 >> } \cup { << 2024, 1, d >> : d \in 1..MaxDay }

DLocalTimes == { [tm_year |-> ymd[1], tm_mon |-> ymd[2], tm_mday |-> ymd[3], tm_hour |-> 15] :
                     ymd \in DDays }

DLabelA == << "S1", UNDERSCORE, "A" >>
DLabelB == << "S2" >>
DLabelC == << "S1", UNDERSCORE, "A", UNDERSCORE, "x" >>

DSessionsA ==
    { [ID |-> << "XA" >>, label |-> DLabelA, date |-> DateText(dt), insert_date |-> StampText(ins)] :
          dt \in DDays, ins \in DDays }

DSessionsB ==
    { [ID |-> << "XB" >>, label |-> DLabelB, date |-> DateText(dt), insert_date |-> StampText(dt)] :
          dt \in DDays }

DSessionC ==
    [ID |-> << "XC" >>, label |-> DLabelC, date |-> DateText(<< 2024, 1, 1 >>),
     insert_date |-> StampText(<< 2024, 1, 1 >>)]

DPathA == SesPath(DRoot, << "pi" >>, << "demo" >>, << "s1" >>, << "a" >>)
DPathB == SesPath(DRoot, << "pi" >>, << "demo" >>, << "S2" >>, << "0", "1" >>)
DPathBLower == SesPath(DRoot, << "pi" >>, << "demo" >>, << "s2" >>, << "0", "1" >>)

DPathChoices(path) == { {} } \cup { { [path |-> path, l_time |-> lt] } : lt \in DLocalTimes }

DTreeOne == << [pi |-> << "pi" >>, studies |-> << << "study", DASH, "demo" >> >>] >>
DTreeTwo ==
    << [pi |-> << "pi" >>, studies |-> << << "study", DASH, "demo" >>, << "study", DASH, "two" >> >>] >>

DInit ==
    /\ d_pc = "start"
    /\ \/ /\ d_tree = << >>
          /\ d_paths = {}
          /\ d_remote = << >>
       \/ /\ d_tree = DTreeOne
          /\ \E a \in DSessionsA, pa \in DPathChoices(DPathA) :
                 /\ d_remote = << [project |-> << "PI", UNDERSCORE, "DEMO" >>, result |-> << a >>] >>
                 /\ d_paths = pa
       \/ /\ d_tree = DTreeOne
          /\ \E a \in DSessionsA, pa \in DPathChoices(DPathA), b \in DSessionsB,
                pb \in DPathChoices(DPathB) \cup DPathChoices(DPathBLower) :
                 /\ a.insert_date = StampText(<< 2024, 1, 1 >>)
                 /\ d_remote = << [project |-> << "PI", UNDERSCORE, "DEMO" >>, result |-> << a, b >>] >>
                 /\ d_paths = pa \cup pb
       \/ /\ d_tree = DTreeTwo
          /\ \E a \in DSessionsA, pa \in DPathChoices(DPathA), last \in { << >>, << DSessionC >> } :
                 /\ a.date = DateText(<< 2024, 1, 1 >>)
                 /\ d_remote = << [project |-> << "PI", UNDERSCORE, "DEMO" >>, result |-> << >>],
                                  [project |-> << "PI", UNDERSCORE, "TWO" >>,
                                   result |-> << a >> \o last] >>
                 /\ d_paths = {}
    /\ d_pi = 0 /\ d_study = 0 /\ d_sessions = << >> /\ d_k = 0
    /\ d_missing = << >> /\ d_conn_open = 0 /\ d_queries = 0
    /\ XpIdle
    /\ CIdle
    /\ MIdle
    /\ AIdle

\* where the loops go on after the sessions of one study: the next study of
\* the same pi, the first study of the next pi that has one, or the end
DNextStop(pi, study) ==
    IF pi >= 1 /\ pi <= Len(d_tree) /\ study < Len(d_tree[pi].studies)
    THEN << pi, study + 1 >>
    ELSE LET later == { q \in (pi + 1)..Len(d_tree) : d_tree[q].studies # << >> }
         IN  IF later = {} THEN << 0, 0 >>
             ELSE << CHOOSE q \in later : \A r \in later : q <= r, 1 >>

DAdvance(pi, study) ==
    /\ d_pi' = DNextStop(pi, study)[1]
    /\ d_study' = DNextStop(pi, study)[2]
    /\ d_pc' = IF DNextStop(pi, study)[1] = 0 THEN "close" ELSE "query"

\* lines 256-266: the connection is set up and the pi directories are listed
DStart ==
    /\ d_pc = "start"
    /\ d_conn_open' = d_conn_open + 1
    /\ DAdvance(0, 0)
    /\ UNCHANGED << d_tree, d_paths, d_remote, d_sessions, d_k, d_missing, d_queries >>
    /\ UNCHANGED << xp_vars, c_vars, m_vars, a_vars >>

ProjectResult(project) == (CHOOSE e \in { d_remote[i] : i \in 1..Len(d_remote) } : e.project = project).result

\* lines 272-274: the sessions of one project are requested; a response that
\* is not a success raises out of the call
DQuery ==
    /\ d_pc = "query"
    /\ d_queries' = d_queries + 1
    /\ \/ /\ d_pc' = "raised"
          /\ UNCHANGED << d_pi, d_study, d_sessions, d_k >>
       \/ LET sessions == ProjectResult(PiStudy(d_tree[d_pi].pi,
                                                StudyOf(d_tree[d_pi].studies[d_study])))
          IN  /\ d_sessions' = sessions
              /\ IF sessions = << >>
                 THEN DAdvance(d_pi, d_study) /\ d_k' = 0
                 ELSE d_pc' = "examine" /\ d_k' = 1 /\ UNCHANGED << d_pi, d_study >>
    /\ UNCHANGED << d_tree, d_paths, d_remote, d_missing, d_conn_open >>
    /\ UNCHANGED << xp_vars, c_vars, m_vars, a_vars >>

\* lines 276-304: one turn of `for session in sessions`
DExamine ==
    /\ d_pc = "examine"
    /\ LET session == d_sessions[d_k]
           pi == d_tree[d_pi].pi
           study == StudyOf(d_tree[d_pi].studies[d_study])
           label == SubjSess(session.label)
           ses_path == SesPath(DRoot, pi, study, label.subj, label.sess)
       IN  IF LabelRaises(session.label)
           THEN d_pc' = "raised" /\ UNCHANGED << d_pi, d_study, d_k, d_missing >>
           ELSE /\ d_missing' = IF NeedsSync(d_paths, ses_path, session)
                                THEN Append(d_missing, [pi |-> pi, study |-> study,
                                                        subject |-> label.subj,
                                                        session |-> label.sess,
                                                        ID |-> session.ID])
                                ELSE d_missing
                /\ IF d_k < Len(d_sessions)
                   THEN d_pc' = "examine" /\ d_k' = d_k + 1 /\ UNCHANGED << d_pi, d_study >>
                   ELSE DAdvance(d_pi, d_study) /\ d_k' = 0
    /\ UNCHANGED << d_tree, d_paths, d_remote, d_sessions, d_conn_open, d_queries >>
    /\ UNCHANGED << xp_vars, c_vars, m_vars, a_vars >>

\* lines 306-308: connection.close() and the list is returned
DClose ==
    /\ d_pc = "close"
    /\ d_conn_open' = d_conn_open - 1
    /\ d_pc' = "returned"
    /\ UNCHANGED << d_tree, d_paths, d_remote, d_pi, d_study, d_sessions, d_k, d_missing,
                    d_queries >>
    /\ UNCHANGED << xp_vars, c_vars, m_vars, a_vars >>

DNext == DStart \/ DQuery \/ DExamine \/ DClose

SpecDiff == DInit /\ [][DNext]_vars

\* ------------------------------------------- repeated calls in one process
\* the calls one process makes
MaxCalls == 2

ACallSessions == { << E1 >>, << E2 >>, << E1, E2 >>, << E2, E1 >> }

\* the merged configuration of a call: the defaults and a list of sessions
ACallDict(list) ==
    Put(DefaultConfig, "xnat2bids-args",
        Put(Get(DefaultConfig, "xnat2bids-args"), "sessions", SListV(list)))

ASessions(arg_dict) == Items(Get(Get(arg_dict, "xnat2bids-args"), "sessions"))

\* the tuples the loop of lines 463-510 appends for arg_dict, one for each
\* session in the order of the list
AssembledFor(arg_dict, password) ==
    [i \in 1..Len(ASessions(arg_dict)) |->
        LET session == ASessions(arg_dict)[i]
            turn == AssembleTurn(arg_dict, session, MUser, password, HomeBidsRoot(MUser),
                                 compile_xnat2bids_list(session, arg_dict))
        IN  [x2b |-> turn.x2b, slurm |-> turn.slurm, bindings |-> turn.bindings]]

\* assemble_argument_lists(arg_dict, user, password, bids_root) as line 746
\* calls it, without argument_lists: the tuples are appended to the list
\* object of the default (line 461), which is what the call returns
AAssemble ==
    /\ a_pc = "idle"
    /\ a_calls < MaxCalls
    /\ \E list \in ACallSessions :
           /\ a_arg_dict' = ACallDict(list)
           /\ a_argument_lists' = a_argument_lists \o AssembledFor(ACallDict(list), << "pw" >>)
    /\ a_calls' = a_calls + 1
    /\ a_i' = 1
    /\ a_submitted' = << >>
    /\ a_pc' = "launch"
    /\ UNCHANGED << a_output, a_next_job, xp_vars, c_vars, m_vars, d_vars >>

\* one turn of the loop of launch_x2b_jobs(argument_lists, simg) as line 749
\* calls it, on the list the call above returned (lines 518-558)
ALaunch ==
    /\ a_pc = "launch"
    /\ a_submitted' = Append(a_submitted, a_argument_lists[a_i].x2b[1])
    /\ a_pc' = "reply"
    /\ UNCHANGED << a_argument_lists, a_output, a_arg_dict, a_i, a_calls, a_next_job,
                    xp_vars, c_vars, m_vars, d_vars >>

\* lines 560-563: what sbatch printed is appended to the list object of the
\* default of output (line 515), which is what the call returns
ALaunchReply ==
    /\ a_pc = "reply"
    /\ \E accepted \in BOOLEAN :
           /\ a_output' = Append(a_output,
                  IF accepted THEN Accepted(IntToStr(FirstJobId + a_next_job)) ELSE << >>)
           /\ a_next_job' = IF accepted THEN a_next_job + 1 ELSE a_next_job
    /\ a_pc' = IF AfterReply(a_i, Len(a_argument_lists)) = "launch" THEN "launch" ELSE "idle"
    /\ a_i' = IF a_i < Len(a_argument_lists) THEN a_i + 1 ELSE 1
    /\ UNCHANGED << a_argument_lists, a_arg_dict, a_calls, a_submitted,
                    xp_vars, c_vars, m_vars, d_vars >>

AInit ==
    /\ AIdle
    /\ XpIdle
    /\ CIdle
    /\ MIdle
    /\ DIdle

ANext == AAssemble \/ ALaunch \/ ALaunchReply

SpecCalls == AInit /\ [][ANext]_vars

\* ------------------------------------------------------- properties of Spec
\* sub occurs in s as a run of consecutive characters
Occurs(sub, s) ==
    \E i \in 1..(Len(s) - Len(sub) + 1) : SubSeq(s, i, i + Len(sub) - 1) = sub

\* the names after "--" at the start of an entry or after a space in it
C1_FlagNames(entry) ==
    { entry[q + 2] : q \in { r \in 1..(Len(entry) - 2) :
                               /\ entry[r] = DASH /\ entry[r + 1] = DASH
                               /\ (r = 1 \/ entry[r - 1] = SP) } }

C1_UnknownKeys(d) == { key \in Keys(d) : ~KnownParam(key) }

C1_UserArgs == IF m_has_config /\ Has(m_user_cfg, "xnat2bids-args")
               THEN Get(m_user_cfg, "xnat2bids-args") ELSE << >>

\* C1: every --name in an argument sequence that compilation returned names
\* a key of xnat2bids_params that the resolved configuration of that session
\* holds, and never project or subjects; a resolved configuration with an
\* unknown key gets no argument list at all; and a user file with an unknown
\* key under xnat2bids-args ends the run before anything is compiled.
C1_SchemaKeysOnly ==
    /\ \A i \in 1..Len(m_compiled) :
           LET resolved == Resolved(m_compiled[i].session, m_arg_dict)
           IN  /\ \A j \in 1..Len(m_compiled[i].list) :
                      C1_FlagNames(m_compiled[i].list[j])
                          \subseteq ((DOMAIN xnat2bids_params \cap Keys(resolved))
                                        \ DOMAIN config_params)
               /\ C1_UnknownKeys(resolved) # {}
                      => m_compiled[i].st # "ok" /\ m_compiled[i].list = << >>
    /\ C1_UnknownKeys(C1_UserArgs) # {}
           => m_compiled = << >> /\ m_argument_lists = << >> /\ m_executed = << >>

\* a session of a project was compiled: the resolved configuration holds the
\* selection key project, and the list returned has flags
C1_Witness ==
    \E i \in 1..Len(m_compiled) :
        /\ m_compiled[i].st = "ok"
        /\ Has(Resolved(m_compiled[i].session, m_arg_dict), "project")
        /\ \E j \in 1..Len(m_compiled[i].list) : C1_FlagNames(m_compiled[i].list[j]) # {}

C5_IsFlag(entry) == Len(entry) >= 2 /\ entry[1] = DASH /\ entry[2] = DASH

\* C5: in every argument sequence handed to launch_x2b_jobs, element 0 is the
\* session and, when the configuration resolved for that session has a
\* bids_root, element 1 is that bids_root and the first flag is element 2.
C5_Positionals ==
    \A i \in 1..Len(m_argument_lists) :
        LET x2b == m_argument_lists[i].x2b
            resolved == Resolved(SessionList[i], m_arg_dict)
        IN  /\ x2b[1] = SessionList[i]
            /\ Has(resolved, "bids_root")
                   => /\ x2b[2] = Fmt(Get(resolved, "bids_root"))
                      /\ Len(x2b) >= 3
                      /\ C5_IsFlag(x2b[3])

\* C6: no text written to the log holds the password.
C6_NoPasswordInLog == \A i \in 1..Len(m_log) : ~Occurs(m_password, m_log[i].text)

C9_Both ==
    /\ m_has_config
    /\ Has(m_user_cfg, "xnat2bids-args")
    /\ Has(Get(m_user_cfg, "xnat2bids-args"), "subjects")
    /\ Has(Get(m_user_cfg, "xnat2bids-args"), "sessions")

\* C9: a run whose user file sets both subjects and sessions under
\* xnat2bids-args never leaves the validation pass except by exit(), and no
\* request was sent, no connection opened and no job submitted.
C9_AbortsBeforeResolution ==
    C9_Both =>
        /\ m_pc \in {"verify", "exit"}
        /\ m_pc = "exit" => m_reason \in {"invalid_parameter", "duplicates",
                                          "subjects_without_project", "subjects_and_sessions"}
        /\ m_queries = 0 /\ m_conn_open = 0
        /\ m_executed = << >> /\ m_compiled = << >>

\* the run was ended by the last test of verify_parameters
C9_Witness == C9_Both /\ m_pc = "exit" /\ m_reason = "subjects_and_sessions" /\ m_queries = 0

C10_Accepted == { i \in 1..Len(m_output) : m_output[i] # << >> }

\* C10: when main returns, the summary counts the submissions the scheduler
\* accepted, and the exit status is not 0 if one of them was rejected.
C10_SummaryCountsLaunched ==
    m_pc = "done" /\ m_reason = "returned" =>
        /\ m_summary.launched = Cardinality(C10_Accepted)
        /\ Cardinality(C10_Accepted) < Len(m_output) => m_exit # 0

\* -------------------------------------------------- properties of SpecDiff
\* the day a remote date text names, as one number
C7_Day(text) ==
    (DigitVal(text[1]) * 1000 + DigitVal(text[2]) * 100 + DigitVal(text[3]) * 10
        + DigitVal(text[4])) * 10000
    + (DigitVal(text[6]) * 10 + DigitVal(text[7])) * 100
    + DigitVal(text[9]) * 10 + DigitVal(text[10])

\* the day a local directory was created on, as one number
C7_Created(path) ==
    LET l_time == (CHOOSE e \in d_paths : e.path = path).l_time
    IN  l_time.tm_year * 10000 + l_time.tm_mon * 100 + l_time.tm_mday

\* every remote session of every project that has a study directory, with
\* the path its data is expected at
C7_Examined ==
    UNION { UNION { UNION { { [session |-> d_remote[p].result[k],
                       path |-> SesPath(DRoot, d_tree[q].pi, StudyOf(d_tree[q].studies[j]),
                                        SubjSess(d_remote[p].result[k].label).subj,
                                        SubjSess(d_remote[p].result[k].label).sess)] :
                          k \in 1..Len(d_remote[p].result) } :
                      p \in { r \in 1..Len(d_remote) :
                                d_remote[r].project
                                    = PiStudy(d_tree[q].pi, StudyOf(d_tree[q].studies[j])) } } :
            j \in 1..Len(d_tree[q].studies) } : q \in 1..Len(d_tree) }

C7_Reports(id) == { i \in 1..Len(d_missing) : d_missing[i].ID = id }

\* C7: when diff_data_directory returns, a remote session is in the list,
\* once, if its expected path does not exist or its insertion day or its
\* last-modified day is after the day the path was created, and is not in
\* the list otherwise.
C7_DiffDecision ==
    d_pc = "returned" =>
        \A e \in C7_Examined :
            IF \/ \A l \in d_paths : l.path # e.path
               \/ /\ \E l \in d_paths : l.path = e.path
                  /\ \/ C7_Day(e.session.insert_date) > C7_Created(e.path)
                     \/ C7_Day(e.session.date) > C7_Created(e.path)
            THEN Cardinality(C7_Reports(e.session.ID)) = 1
            ELSE C7_Reports(e.session.ID) = {}

\* the call returned; one session whose directory was created on the day of
\* both remote dates is left out, one whose directory is missing is reported
C7_Witness ==
    /\ d_pc = "returned"
    /\ \E e \in C7_Examined :
           /\ \E l \in d_paths : l.path = e.path
           /\ C7_Day(e.session.insert_date) = C7_Created(e.path)
           /\ C7_Day(e.session.date) = C7_Created(e.path)
           /\ C7_Reports(e.session.ID) = {}
    /\ \E e \in C7_Examined :
           /\ \A l \in d_paths : l.path # e.path
           /\ C7_Reports(e.session.ID) # {}

\* ------------------------------------------ further properties of the runs
C11_Reserved == {"xnat2bids-args", "slurm-args"}

C11_Section(cfg, name) == IF Has(cfg, name) THEN Get(cfg, name) ELSE << >>

\* C11: with a user file that verify_parameters lets through, the merge does
\* not fail, and the configuration it leaves has, in each reserved section,
\* every key of the user's section with the user's value and every other
\* key of the default section with the default value (version, which main
\* takes out at line 675, aside), and every other section of the user file
\* with the user's keys and values.
C11_MergeOverlay ==
    (/\ m_has_config
     /\ Has(m_user_cfg, "xnat2bids-args")
     /\ verify_parameters(Get(m_user_cfg, "xnat2bids-args")) = "ok")
    => /\ m_pc \notin {"verify", "merge"} => m_reason # "KeyError"
       /\ m_pc = "resolve" =>
              /\ \A name \in C11_Reserved :
                     LET user == C11_Section(m_user_cfg, name)
                         default == Get(DefaultConfig, name)
                         merged == Get(m_arg_dict, name)
                     IN  /\ Keys(merged) = (Keys(user) \cup Keys(default)) \ {"version"}
                         /\ \A key \in Keys(merged) :
                                Get(merged, key) = IF Has(user, key) THEN Get(user, key)
                                                   ELSE Get(default, key)
              /\ Keys(m_arg_dict) = Keys(m_user_cfg) \cup C11_Reserved
              /\ \A name \in Keys(m_user_cfg) \ C11_Reserved :
                     Get(m_arg_dict, name) = Get(m_user_cfg, name)

C13_Rejections ==
    {"invalid_parameter", "duplicates", "subjects_without_project", "subjects_and_sessions"}

\* C13: a run that verify_parameters ends has an exit status other than 0
\* and has submitted no job.
C13_RejectedNonZero ==
    (m_pc = "exit" /\ m_reason \in C13_Rejections) => (m_exit # 0 /\ m_executed = << >>)

\* C14: a user file that names both a project and a list of sessions under
\* xnat2bids-args does not get past verify_parameters, and nothing is
\* compiled from it.
C14_OneSelector ==
    (/\ m_has_config
     /\ Has(C1_UserArgs, "project")
     /\ Has(C1_UserArgs, "sessions"))
    => (m_pc \in {"verify", "exit"} /\ m_compiled = << >> /\ m_executed = << >>)

\* the places in the sequence of sbatch calls of the calls for one kind of job
C15_Jobs(name) == { i \in 1..Len(m_executed) : m_executed[i].job = name }

\* C15: when an sbatch call for the bids-validator has been made, the
\* sbatch call of every session was made before it and the output of each
\* has been captured.
C15_ValidatorAfterAll ==
    \A v \in C15_Jobs("bids-validator") :
        /\ \A j \in C15_Jobs("xnat2bids") : j < v
        /\ Cardinality(C15_Jobs("xnat2bids")) = Len(SessionList)
        /\ Len(m_output) = Len(SessionList)

\* a validator job was submitted in a run of two sessions
C15_Witness ==
    /\ C15_Jobs("bids-validator") # {}
    /\ Cardinality(C15_Jobs("xnat2bids")) = 2
    /\ Len(SessionList) = 2

\* C16: while the reply to the submission of one session is awaited and
\* another session is left, the submission of that next session can start.
C16_BackToBack ==
    (m_pc = "reply" /\ m_i < Len(m_argument_lists)) => ENABLED MLaunch

\* C17: when main returns, no validator job was submitted if the argument
\* sequence of some session has --export-only, and one for each distinct
\* BIDS directory of the sessions if none has.
C17_ValidationIffNoExportOnly ==
    (m_pc = "done" /\ m_reason = "returned") =>
        Cardinality(C15_Jobs("bids-validator")) =
            IF \E i \in 1..Len(m_argument_lists) : ~WantsValidation(m_argument_lists[i])
            THEN 0
            ELSE Cardinality({ BidsDir(m_bids_root, SessionList[i]) : i \in 1..Len(SessionList) })

\* C18: when the process has ended, every connection that was opened has
\* been closed.
C18_ConnectionsClosed == m_pc \in {"exit", "done"} => m_conn_open = 0

\* the identifiers in the outputs of the accepted submissions, in order
C20_Assigned ==
    LET replies == SelectSeq(m_output, LAMBDA o : o # << >>)
    IN  [i \in 1..Len(replies) |-> SubSeq(replies[i], 2, Len(replies[i]) - 1)]

\* C20: the dependency of every validator job is afterok: followed by the
\* identifiers of the accepted submissions of the run, joined by colons.
C20_Dependencies ==
    \A v \in C15_Jobs("bids-validator") :
        m_executed[v].cmd[3] = << "afterok", COLON >> \o JoinWith(C20_Assigned, COLON)

\* ------------------------------------------- further properties of SpecC
C12_Entries(d) == { d[i] : i \in 1..Len(d) }

\* xnat2bids-args with the block of the session laid over it, as a set of
\* key-value pairs
C12_Overlay(arg_dict, session) ==
    LET globals == C11_Section(arg_dict, "xnat2bids-args")
        block == IF \E i \in 1..Len(arg_dict) : << arg_dict[i].k >> = session
                 THEN (CHOOSE e \in C12_Entries(arg_dict) : << e.k >> = session).v
                 ELSE << >>
    IN  C12_Entries(block) \cup { e \in C12_Entries(globals) : ~Has(block, e.k) }

\* C12: the parameters compile_xnat2bids_list hands to parse_x2b_params for
\* a session are those of xnat2bids-args with the block named after the
\* session laid over them, wherever the block stands in the configuration.
C12_SessionOverlay ==
    c_pc \in {"call2", "done"}
        => C12_Entries(c_x2b_param_dict) = C12_Overlay(c_arg_dict0, c_session)

C19_Bound == { k \in DOMAIN xnat2bids_params : xnat2bids_params[k][2] } \ {"bids_root"}

\* the bind paths the parameters of d ask for, in the order of d
RECURSIVE C19_Asked(_)
C19_Asked(d) ==
    IF d = << >> THEN << >>
    ELSE (IF Head(d).k \notin C19_Bound \/ Head(d).v = StrV(<< >>) THEN << >>
          ELSE IF Head(d).v.t = "slist"
          THEN [i \in 1..Len(Head(d).v.ls) |-> StrV(Head(d).v.ls[i])]
          ELSE << Head(d).v >>) \o C19_Asked(Tail(d))

C19_Expected(d) ==
    (IF Has(d, "bids_root") THEN << StrV(Fmt(Get(d, "bids_root"))) >> ELSE << >>)
        \o C19_Asked(d)

\* C19: the bind paths returned for a session are the configured bids_root,
\* once, and the values of bidsmap-file and dicomfix-config that are not
\* empty, each member of a list as an entry of its own, and nothing else.
C19_Bindings ==
    (c_pc \in {"call2", "done"} /\ c_out1.st = "ok") =>
        \A x \in C12_Entries(c_out1.bindings) \cup C12_Entries(C19_Expected(c_x2b_param_dict)) :
            Count(c_out1.bindings, x) = Count(C19_Expected(c_x2b_param_dict), x)

\* ------------------------------------------ further properties of SpecCalls
\* the sessions of the tuples of a list of argument lists, in order
C21_SessionsOf(argument_lists) ==
    [i \in 1..Len(argument_lists) |-> argument_lists[i].x2b[1]]

\* C21: when a call of assemble_argument_lists followed by launch_x2b_jobs
\* has returned, the list returned has one tuple for each session of the
\* configuration of the call, in the order of its list, sbatch was run once
\* for each of them in that order, and one output is returned for each,
\* whatever calls the process made before.
C21_OnePerSession ==
    (a_pc = "idle" /\ a_calls > 0) =>
        /\ C21_SessionsOf(a_argument_lists) = ASessions(a_arg_dict)
        /\ a_submitted = ASessions(a_arg_dict)
        /\ Len(a_output) = Len(ASessions(a_arg_dict))

\* ------------------------------------------------- the modes of a run
\* the positions of main after the confirmation prompt
C22_Proceeding ==
    {"sessions", "assemble", "launch", "reply", "jobids", "val_resolve", "val_launch",
     "summary", "done"}

\* C22: a run in diff mode runs no sbatch command; a run in update mode has
\* run one only if the last answer at the prompt was y or Y; after n or N
\* the process has ended with none run; after any other answer the run is
\* at the prompt again; and with no session to update the run does not
\* prompt, does not go on and runs none.
C22_ConfirmedBeforeSubmission ==
    /\ m_mode = "diff" => (m_executed = << >> /\ m_prompts = 0)
    /\ m_mode = "update" =>
        /\ (m_executed # << >> \/ m_pc \in C22_Proceeding) => m_confirm \in {"y", "Y"}
        /\ m_confirm \in {"n", "N"} => (m_pc = "exit" /\ m_executed = << >>)
        /\ m_confirm \notin {"", "y", "Y", "n", "N"} => (m_pc = "confirm" /\ m_executed = << >>)
        /\ m_gaps = << >> =>
               (m_prompts = 0 /\ m_executed = << >> /\ m_pc \notin C22_Proceeding \cup {"confirm"})

\* an update run that submitted jobs after an answer that was no answer and
\* then a yes
C22_Witness ==
    /\ m_mode = "update"
    /\ m_prompts >= 2
    /\ m_confirm \in {"y", "Y"}
    /\ m_executed # << >>

====
